---- MODULE Spec2Model ----
(***************************************************************************)
(* pyledger: the journal posting engine (pyledger/db.py add_journal_entry, *)
(* pyledger/journal.py Ledger.post_entry), the GAAP side effects that run  *)
(* inside a post (pyledger/gaap_compliance.py) and the single-invoice      *)
(* payment clearing (pyledger/db.py clear_invoice_payment), over one       *)
(* shared SQLite database that every caller opens its own connection to.   *)
(*                                                                         *)
(* Money is a REAL in the code; here it is an integer count of micro-units *)
(* (1.00 = 1000000), so the tolerances 1e-6 and 0.01 are 1 and 10000 and   *)
(* additions are exact.                                                    *)
(***************************************************************************)
EXTENDS Integers, Sequences, FiniteSets, TLC

VARIABLES
  db,      \* the committed content of the database file
  work,    \* the uncommitted content seen by the connection holding the write lock
  lock,    \* the caller whose connection holds SQLite's write lock, or NoCaller
  pc,      \* each caller's position in the handler it is running
  call,    \* each caller's arguments and local variables
  chart,   \* in-memory ChartOfAccounts.accounts
  ledger,  \* in-memory Ledger.entries
  memPosts \* how many times Ledger.post_entry has been called (bounds the model)

vars == <<db, work, lock, pc, call, chart, ledger, memPosts>>

mem == <<chart, ledger, memPosts>>

----------------------------------------------------------------------------
\* Bounds of the model.

\* the number of journal entries the model lets callers post
MaxEntries == 2
\* the number of conservatism adjustments the model lets callers make
MaxAdjustments == 1
MaxClearings == 3
\* the number of journal entries and clearing records one business keeps
MaxRecords == 2
\* the number of calls of Ledger.post_entry up to which the files are loaded
MaxReplayed == 4
MaxAgingRows == 2

----------------------------------------------------------------------------
\* Program constants.

\* db.py:192, abs(total_debits - total_credits) > 0.01, in micro-units
DbTolerance == 10000
\* api.py:269 and journal.py:41, 1e-6, in micro-units
Eps == 1
\* gaap_compliance.py:57, materiality_threshold = 0.05, in percent
MaterialityPct == 5

----------------------------------------------------------------------------
\* Inputs.

Callers == {"c1", "c2"}
NoCaller == "none"

\* account codes callers name; the type each is created with
Codes == {"1000", "3000"}
AccountTypes == {"ASSET", "LIABILITY", "EQUITY", "REVENUE", "EXPENSE"}
TypeOfCode(code) ==
  CASE code = "1000" -> "ASSET"
    [] code = "4000" -> "REVENUE"
    [] code = "5000" -> "EXPENSE"
    [] OTHER -> "EQUITY"

\* the chart of a business that keeps books: cash, owner equity, retained
\* earnings, one revenue and one expense account
BookCodes == {"1000", "3000", "3100", "4000", "5000"}
AllCodes == Codes \cup BookCodes

\* the name each account is created with, as its characters
NameOfCode(code) ==
  CASE code = "1000" -> <<"C", "a", "s", "h">>
    [] code = "3000" -> <<"O", "w", "n", "e", "r", " ", "E", "q", "u", "i", "t", "y">>
    [] code = "3100" -> <<"R", "e", "t", "a", "i", "n", "e", "d">>
    [] code = "4000" -> <<"S", "a", "l", "e", "s">>
    [] code = "5000" -> <<"C", "A", "S", "H", " ", "s", "h", "o", "r", "t">>
    [] OTHER -> <<>>


Debit(code, amount) == [account_code |-> code, amount |-> amount, is_debit |-> TRUE]
Credit(code, amount) == [account_code |-> code, amount |-> amount, is_debit |-> FALSE]
Line(code, amount, is_debit) ==
  [account_code |-> code, amount |-> amount, is_debit |-> is_debit]

\* the lists of lines callers post, in micro-units (1000000 = 1.00):
EntryInputs ==
  { <<>>,                                                        \* no line at all
    << Debit("1000", 1000000), Credit("3000", 1000000) >>,       \* balanced
    << Debit("1000", 50000000), Credit("3000", 50000000) >>,     \* balanced, 50.00
    << Debit("3000", 1000000), Credit("1000", 1000000) >>,       \* balanced, reversing
    << Debit("1000", 1000000), Credit("3000", 1005000) >>,       \* off by 0.005
    << Debit("1000", 2000000), Credit("3000", 1000000) >>,       \* off by 1.00
    << Debit("1000", 1000000), Debit("1000", 1000000),
       Credit("3000", 2000000) >> }                              \* one account twice

\* the purchase orders callers create: the (quantity, unit_price, tax_rate) of
\* their lines, the tax rate in percent
PONumbers == {"PO1"}
POLine(quantity, unit_price, tax_rate) ==
  [quantity |-> quantity, unit_price |-> unit_price, tax_rate |-> tax_rate]
POLines(po_number) == << POLine(2, 1000000, 10), POLine(1, 2000000, 10) >>
\* the line ids, the quantities received and the payments callers name
LineIds == 1..3
ReceivedQuantities == {1, 2}
POPayments == {1100000}

\* the amounts of conservatism adjustments
Adjustments == {1000000}

\* the invoices callers create, their totals, and the payments callers clear
InvoiceNumbers == {"INV1", "INV2"}
InvoiceTotal(invoice_number) == IF invoice_number = "INV1" THEN 6050000 ELSE 3000000
InvoiceTax(invoice_number) == IF invoice_number = "INV1" THEN 550000 ELSE 450000
InvoiceIssued(invoice_number) == IF invoice_number = "INV1" THEN 15 ELSE 16
InvoiceDue(invoice_number) == IF invoice_number = "INV1" THEN 31 ELSE 32
InvoiceStatuses == {"unpaid", "Draft"}
Payments == {1000000, 2000000, 3000000}

\* the invoice lists, payments and allocation methods of multi-invoice clearings
ManyInputs ==
  { <<>>, <<"INV1">>, <<"INV2">>, <<"INV1", "INV2">>, <<"INV2", "INV1">>,
    <<"INV1", "INV1">> }
TotalPayments == {500000, 1000000}

\* the payment reference callers give, as a list of the pieces of its text
PaymentReference == <<"PAY">>

\* the dates aging reports are generated for, as day numbers
ReportDates == {10, 16, 46, 76}
AllocationMethods == {"proportional", "oldest_first", "largest_first"}

----------------------------------------------------------------------------
\* Pure helpers.

Abs(x) == IF x < 0 THEN -x ELSE x

RECURSIVE SumSeq(_)
SumSeq(s) == IF s = <<>> THEN 0 ELSE Head(s) + SumSeq(Tail(s))

\* the rows of a set, one after the other
RECURSIVE SeqOf(_)
SeqOf(S) ==
  IF S = {} THEN <<>>
  ELSE LET x == CHOOSE y \in S : TRUE IN <<x>> \o SeqOf(S \ {x})

SelectAmounts(lines, debit) ==
  LET RECURSIVE pick(_)
      pick(s) == IF s = <<>> THEN <<>>
                 ELSE IF Head(s).is_debit = debit
                      THEN <<Head(s).amount>> \o pick(Tail(s))
                      ELSE pick(Tail(s))
  IN  pick(lines)

total_debits(lines) == SumSeq(SelectAmounts(lines, TRUE))
total_credits(lines) == SumSeq(SelectAmounts(lines, FALSE))

\* db.py:192: the entry passes add_journal_entry's check
DbBalanced(lines) == ~(Abs(total_debits(lines) - total_credits(lines)) > DbTolerance)

\* api.py:269, main.py:130, mcp_server.py:327: the entry passes the caller's check
ApiBalanced(lines) == ~(Abs(total_debits(lines) - total_credits(lines)) > Eps)

\* journal.py:38-41
is_balanced(lines) == Abs(total_debits(lines) - total_credits(lines)) < Eps

\* a sign rule that forgets the account's type
ApplyLineAnyType(type, balance, amount, is_debit) ==
  IF is_debit THEN balance + amount ELSE balance - amount

\* db.py:219-228, journal.py:65-74: the balance after one line
ApplyLine(type, balance, amount, is_debit) ==
  IF is_debit
  THEN IF type \in {"ASSET", "EXPENSE"} THEN balance + amount ELSE balance - amount
  ELSE IF type \in {"ASSET", "EXPENSE"} THEN balance - amount ELSE balance + amount

----------------------------------------------------------------------------
\* The database.

NoAccount == [exists |-> FALSE, type |-> "NONE", balance |-> 0]
NoInvoice ==
  [exists |-> FALSE, status |-> "none", total_tax |-> 0, total_amount |-> 0,
   paid_amount |-> 0, issue_date |-> 0, due_date |-> 0]

\* a row of list_invoices (db.py:333-336), by column number; the columns the
\* model does not follow are left empty
InvoiceRow(invoice_number, inv) ==
  [col \in 0..11 |->
     CASE col = 0  -> invoice_number
       [] col = 3  -> inv.issue_date
       [] col = 4  -> inv.due_date
       [] col = 5  -> inv.status
       [] col = 8  -> inv.total_tax
       [] col = 9  -> inv.total_amount
       [] col = 10 -> inv.paid_amount
       [] OTHER    -> ""]

NoInvoiceRow == InvoiceRow("none", NoInvoice)

\* list_invoices(conn, status) (db.py:327-344)
list_invoices(d, status) ==
  {InvoiceRow(n, d.invoices[n]) :
     n \in {m \in InvoiceNumbers : d.invoices[m].exists /\ d.invoices[m].status = status}}

\* payment_clearing.py:49-53, 70-74: the listed row of the invoice, if any
Listed(rows, invoice_number) ==
  IF \E r \in rows : r[0] = invoice_number
  THEN CHOOSE r \in rows : r[0] = invoice_number
  ELSE NoInvoiceRow

\* purchase orders: a row of purchase_orders and the rows of
\* purchase_order_lines (db.py:73-109); a line's id is its place in the table
NoPurchaseOrder ==
  [exists |-> FALSE, total_amount |-> 0, received_subtotal |-> 0,
   received_tax |-> 0, received_total |-> 0]

EmptyDb ==
  [accounts |-> [c \in AllCodes |-> NoAccount],
   entries  |-> <<>>,       \* journal_entries rows (their ids), in insertion order
   lines    |-> <<>>,       \* journal_lines rows, in insertion order
   seq      |-> 0,          \* sqlite_sequence of journal_entries (AUTOINCREMENT)
   adjustments |-> 0,       \* gaap_audit_trail rows with action conservatism_adjustment
   invoices |-> [n \in InvoiceNumbers |-> NoInvoice],
   clearings |-> <<>>,      \* payment_clearings rows, in insertion order
   aging |-> <<>>,          \* aging_schedules rows, in insertion order
   purchase_orders |-> [po \in PONumbers |-> NoPurchaseOrder],
   purchase_order_lines |-> <<>>]

\* the accounts table after add_account has created the accounts of S
ChartOf(S) ==
  [c \in AllCodes |-> IF c \in S
                      THEN [exists |-> TRUE, type |-> TypeOfCode(c), balance |-> 0]
                      ELSE NoAccount]

\* what caller p's connection reads: its own uncommitted writes, else committed data
View(p) == IF lock = p THEN work ELSE db

\* p's connection may write: no other connection holds the write lock
CanWrite(p) == lock \in {NoCaller, p}

\* an id taken from the sequence without moving past the last one used
NextEntryIdReused(d) == IF d.seq = 0 THEN 1 ELSE d.seq

\* db.py:27, AUTOINCREMENT: one more than the largest id ever used
NextEntryId(d) == d.seq + 1

\* gaap_compliance.py:327-331
TotalAssets(d) ==
  LET RECURSIVE sum(_)
      sum(S) == IF S = {} THEN 0
                ELSE LET c == CHOOSE x \in S : TRUE
                     IN  (IF d.accounts[c].exists /\ d.accounts[c].type = "ASSET"
                          THEN d.accounts[c].balance ELSE 0) + sum(S \ {c})
  IN  sum(AllCodes)

\* gaap_compliance.py:332 and db.py:233: abs(amount) >= total_assets * 0.05,
\* with both sides multiplied by 20
Material(amount, assets) == Abs(amount) * (100 \div MaterialityPct) >= assets

----------------------------------------------------------------------------
\* Callers.

NoRow == [found |-> FALSE, type |-> "NONE", balance |-> 0]

\* the details clear_single_invoice_payment returns (payment_clearing.py:76-87)
NoResult ==
  [original_amount |-> 0, previous_paid |-> 0, new_paid_amount |-> 0,
   remaining_balance |-> 0]

\* the aging periods (db.py:143) and the report generate_aging_report returns
\* (payment_clearing.py:271-294)
AgingPeriods == {"current", "30_days", "60_days", "90_days", "over_90_days"}

NoReport ==
  [items_processed |-> 0,
   aging_summary |-> [period \in AgingPeriods |-> [count |-> 0, amount |-> 0]],
   total_amount |-> 0, total_count |-> 0]

\* the accounts a caller has read with list_accounts, and the statement
\* computed from them
NoChart == [c \in AllCodes |-> NoAccount]
NoStatement == <<>>

IdleCall ==
  [op |-> "none", via |-> "none", lines |-> <<>>, i |-> 0, entry_id |-> 0,
   assets |-> 0, row |-> NoRow, code |-> "none", amount |-> 0, result |-> "none",
   total_amount |-> 0, current_paid |-> 0, invoice |-> NoInvoiceRow, ret |-> NoResult,
   invoice_numbers |-> <<>>, total_payment_amount |-> 0, allocation_method |-> "none",
   invoices |-> <<>>, allocations |-> <<>>, results |-> <<>>,
   schedule_date |-> 0, items |-> <<>>, report |-> NoReport,
   payment_reference |-> <<>>, clearing_reference |-> <<>>, clearing_method |-> "none",
   kind |-> "none", read |-> NoChart, statement |-> NoStatement,
   po_number |-> "none", line_id |-> 0, received_quantity |-> 0,
   current_received |-> 0]

Free(p) == pc[p] \in {"idle", "done"}

\* add_journal_entry with the balance check after the loop instead of before it
PostStepsCheckLast ==
  [pro |-> <<"mat_select", "mat_insert", "mat_audit", "header">>,
   epi |-> <<"validate", "commit">>]

\* the loop body reading the balance before its first write
LineStepsReadFirst == <<"select", "line_insert", "update", "audit">>

\* the order of add_journal_entry's statements around the loop over the lines
\* (db.py:188-206 before it, db.py:245 after it)
PostSteps ==
  [pro |-> <<"validate", "mat_select", "mat_insert", "mat_audit", "header">>,
   epi |-> <<"commit">>]

\* the order of the statements run for one line (db.py:209-243)
LineSteps == <<"line_insert", "select", "update", "audit">>

IndexOf(s, x) == CHOOSE k \in 1..Len(s) : s[k] = x
InSeq(s, x) == \E k \in 1..Len(s) : s[k] = x

\* whether a statement of the loop body runs for the line c is at
Applicable(step, c) ==
  CASE step = "update" -> c.row.found
    [] step = "audit"  -> c.row.found /\ Material(c.lines[c.i].amount, c.assets)
    [] OTHER           -> TRUE

\* the first statement at or after position k of the loop body that runs, or 0
RECURSIVE FirstFrom(_, _)
FirstFrom(k, c) ==
  IF k > Len(LineSteps) THEN 0
  ELSE IF Applicable(LineSteps[k], c) THEN k ELSE FirstFrom(k + 1, c)

\* where the loop goes for line number i: its first statement, or past the loop
StartLine(c, i) ==
  IF i > Len(c.lines)
  THEN [pc |-> PostSteps.epi[1], i |-> i]
  ELSE [pc |-> LineSteps[1], i |-> i]

\* the statement after `step`, with c the locals once `step` has run
NextAt(step, c) ==
  IF InSeq(PostSteps.pro, step)
  THEN LET k == IndexOf(PostSteps.pro, step)
       IN  IF k < Len(PostSteps.pro)
           THEN [pc |-> PostSteps.pro[k + 1], i |-> c.i]
           ELSE StartLine(c, 1)
  ELSE IF InSeq(LineSteps, step)
  THEN LET j == FirstFrom(IndexOf(LineSteps, step) + 1, c)
       IN  IF j = 0 THEN StartLine(c, c.i + 1)
           ELSE [pc |-> LineSteps[j], i |-> c.i]
  ELSE LET k == IndexOf(PostSteps.epi, step)
       IN  IF k < Len(PostSteps.epi)
           THEN [pc |-> PostSteps.epi[k + 1], i |-> c.i]
           ELSE [pc |-> "done", i |-> c.i]

\* what is left of a call once its handler has returned or raised
Returned(c, result) ==
  [IdleCall EXCEPT !.op = c.op, !.result = result]

\* p's handler goes on to the statement after `step`
Goto(p, step, c) ==
  LET n == NextAt(step, c)
  IN  /\ pc' = [pc EXCEPT ![p] = n.pc]
      /\ call' = [call EXCEPT ![p] =
                    IF n.pc = "done" THEN Returned(c, "ok") ELSE [c EXCEPT !.i = n.i]]

\* an exception leaves the handler: the connection is dropped with its
\* uncommitted writes (sqlite3 rolls an open transaction back on close)
Raise(p, err) ==
  /\ pc' = [pc EXCEPT ![p] = "done"]
  /\ call' = [call EXCEPT ![p] = Returned(call[p], err)]
  /\ IF lock = p
     THEN work' = db /\ lock' = NoCaller
     ELSE UNCHANGED <<work, lock>>
  /\ UNCHANGED db

\* conn.commit(): the connection's writes become the committed content
Commit(p) ==
  IF lock = p
  THEN db' = work /\ lock' = NoCaller /\ UNCHANGED work
  ELSE UNCHANGED <<db, work, lock>>

\* a write statement of p's connection: takes the write lock (sqlite3 opens a
\* transaction before INSERT/UPDATE) and changes the connection's content to d
Write(p, d) ==
  /\ CanWrite(p)
  /\ work' = d
  /\ lock' = p
  /\ UNCHANGED db

----------------------------------------------------------------------------
\* Initial state: init_db has created the empty tables (db.py:11-154).

Init ==
  /\ db = EmptyDb
  /\ work = EmptyDb
  /\ lock = NoCaller
  /\ pc = [p \in Callers |-> "idle"]
  /\ call = [p \in Callers |-> IdleCall]
  /\ chart = [c \in Codes |-> NoAccount]
  /\ ledger = <<>>
  /\ memPosts = 0

----------------------------------------------------------------------------
\* add_account (db.py:156-163), as api_add_account, the CLI and the MCP tool
\* call it: balance 0.0. One INSERT and a commit.
AddAccount(p) ==
  /\ Free(p)
  /\ CanWrite(p)
  /\ \E code \in Codes :
       /\ ~db.accounts[code].exists
       /\ db' = [db EXCEPT !.accounts[code] =
                   [exists |-> TRUE, type |-> TypeOfCode(code), balance |-> 0]]
       /\ work' = db'
  /\ pc' = [pc EXCEPT ![p] = "done"]
  /\ call' = [call EXCEPT ![p] = [IdleCall EXCEPT !.op = "add_account", !.result = "ok"]]
  /\ UNCHANGED <<lock, mem>>

----------------------------------------------------------------------------
\* Posting a journal entry to the database.

\* the posts that hold or will ask for an entry id
Started ==
  work.seq + Cardinality({q \in Callers : /\ ~Free(q)
                                          /\ call[q].op = "post"
                                          /\ call[q].entry_id = 0})

\* a caller starts a post: directly (db.add_journal_entry) or through a front
\* end that checks the balance first (api.py:264-273, main.py:127-134,
\* mcp_server.py:323-331)
BeginPost(p) ==
  /\ Free(p)
  /\ Started + memPosts < MaxEntries
  /\ \E lines \in EntryInputs, via \in {"db", "api"} :
       /\ call' = [call EXCEPT ![p] =
                     [IdleCall EXCEPT !.op = "post", !.via = via, !.lines = lines]]
       /\ pc' = [pc EXCEPT ![p] = IF via = "api" THEN "api_check" ELSE PostSteps.pro[1]]
  /\ UNCHANGED <<db, work, lock, mem>>

\* api.py:267-270
ApiCheck(p) ==
  /\ pc[p] = "api_check"
  /\ IF ApiBalanced(call[p].lines)
     THEN /\ pc' = [pc EXCEPT ![p] = PostSteps.pro[1]]
          /\ call' = [call EXCEPT ![p].via = "db"]
          /\ UNCHANGED <<db, work, lock>>
     ELSE Raise(p, "unbalanced")
  /\ UNCHANGED mem

\* db.py:188-193
Validate(p) ==
  /\ pc[p] = "validate"
  /\ IF DbBalanced(call[p].lines)
     THEN Goto(p, "validate", call[p]) /\ UNCHANGED <<db, work, lock>>
     ELSE Raise(p, "unbalanced")
  /\ UNCHANGED mem

\* gaap_compliance.py:324-332: the threshold is read from the asset balances
MatSelect(p) ==
  /\ pc[p] = "mat_select"
  /\ Goto(p, "mat_select", [call[p] EXCEPT !.assets = TotalAssets(View(p))])
  /\ UNCHANGED <<db, work, lock, mem>>

\* gaap_compliance.py:337-350: INSERT INTO materiality_assessments
MatInsert(p) ==
  /\ pc[p] = "mat_insert"
  /\ Write(p, View(p))
  /\ Goto(p, "mat_insert", call[p])
  /\ UNCHANGED mem

\* gaap_compliance.py:352-368: log_audit_trail (INSERT, commit), commit
MatAudit(p) ==
  /\ pc[p] = "mat_audit"
  /\ CanWrite(p)
  /\ db' = View(p) /\ work' = View(p) /\ lock' = NoCaller
  /\ Goto(p, "mat_audit", call[p])
  /\ UNCHANGED mem

\* db.py:205-206: INSERT INTO journal_entries; entry_id = c.lastrowid
InsertHeader(p) ==
  /\ pc[p] = "header"
  /\ LET id == NextEntryId(View(p))
     IN  /\ Write(p, [View(p) EXCEPT !.entries = Append(@, id), !.seq = id])
         /\ Goto(p, "header", [call[p] EXCEPT !.entry_id = id])
  /\ UNCHANGED mem

\* db.py:209-210: INSERT INTO journal_lines
InsertLine(p) ==
  /\ pc[p] = "line_insert"
  /\ LET c == call[p]
         l == c.lines[c.i]
     IN  /\ Write(p, [View(p) EXCEPT !.lines = Append(@,
                        [entry_id |-> c.entry_id, account_code |-> l.account_code,
                         amount |-> l.amount, is_debit |-> l.is_debit])])
         /\ Goto(p, "line_insert", c)
  /\ UNCHANGED mem

\* db.py:213-215: SELECT type, balance FROM accounts WHERE code = ?
SelectAccount(p) ==
  /\ pc[p] = "select"
  /\ LET c == call[p]
         a == View(p).accounts[c.lines[c.i].account_code]
     IN  Goto(p, "select", [c EXCEPT !.row =
                [found |-> a.exists, type |-> a.type, balance |-> a.balance]])
  /\ UNCHANGED <<db, work, lock, mem>>

\* db.py:216-230: UPDATE accounts SET balance = ? WHERE code = ?
UpdateBalance(p) ==
  /\ pc[p] = "update"
  /\ LET c == call[p]
         l == c.lines[c.i]
         balance == ApplyLine(c.row.type, c.row.balance, l.amount, l.is_debit)
     IN  /\ Write(p, [View(p) EXCEPT !.accounts[l.account_code].balance = balance])
         /\ Goto(p, "update", c)
  /\ UNCHANGED mem

\* db.py:233-243: log_audit_trail for a material line: INSERT and commit
\* (gaap_compliance.py:144-161)
LogAudit(p) ==
  /\ pc[p] = "audit"
  /\ CanWrite(p)
  /\ db' = View(p) /\ work' = View(p) /\ lock' = NoCaller
  /\ Goto(p, "audit", call[p])
  /\ UNCHANGED mem

\* db.py:245-246: conn.commit(); return entry_id
PostCommit(p) ==
  /\ pc[p] = "commit"
  /\ Commit(p)
  /\ Goto(p, "commit", call[p])
  /\ UNCHANGED mem

----------------------------------------------------------------------------
\* GAAPCompliance.apply_conservatism (gaap_compliance.py:412-451), exposed as
\* POST /gaap/conservatism (api.py:757-773).

BeginConservatism(p) ==
  /\ Free(p)
  /\ work.adjustments +
       Cardinality({q \in Callers : ~Free(q) /\ call[q].op = "conservatism"})
         < MaxAdjustments
  /\ \E code \in Codes, amount \in Adjustments :
       call' = [call EXCEPT ![p] =
                  [IdleCall EXCEPT !.op = "conservatism", !.code = code, !.amount = amount]]
  /\ pc' = [pc EXCEPT ![p] = "cons_select"]
  /\ UNCHANGED <<db, work, lock, mem>>

\* gaap_compliance.py:418-433
ConsSelect(p) ==
  /\ pc[p] = "cons_select"
  /\ LET a == View(p).accounts[call[p].code]
     IN  IF a.exists /\ a.type \in {"ASSET", "LIABILITY"}
         THEN /\ pc' = [pc EXCEPT ![p] = "cons_update"]
              /\ call' = [call EXCEPT ![p].row =
                            [found |-> TRUE, type |-> a.type, balance |-> a.balance]]
              /\ UNCHANGED <<db, work, lock>>
         ELSE Raise(p, IF a.exists THEN "not_applicable" ELSE "not_found")
  /\ UNCHANGED mem

\* gaap_compliance.py:426-437
ConsUpdate(p) ==
  /\ pc[p] = "cons_update"
  /\ LET c == call[p]
         new_balance == IF c.row.type = "ASSET"
                        THEN c.row.balance - Abs(c.amount)
                        ELSE c.row.balance + Abs(c.amount)
     IN  Write(p, [View(p) EXCEPT !.accounts[c.code].balance = new_balance])
  /\ pc' = [pc EXCEPT ![p] = "cons_audit"]
  /\ UNCHANGED <<call, mem>>

\* gaap_compliance.py:439-451: log_audit_trail (INSERT, commit), commit
ConsAudit(p) ==
  /\ pc[p] = "cons_audit"
  /\ CanWrite(p)
  /\ db' = [View(p) EXCEPT !.adjustments = @ + 1]
  /\ work' = db'
  /\ lock' = NoCaller
  /\ pc' = [pc EXCEPT ![p] = "done"]
  /\ call' = [call EXCEPT ![p] = Returned(call[p], "ok")]
  /\ UNCHANGED mem

ConservatismStep(p) ==
  \/ ConsSelect(p)
  \/ ConsUpdate(p)
  \/ ConsAudit(p)

\* a write statement finds the database locked by another connection and
\* gives up after sqlite3's busy timeout: OperationalError (db.py:8-9, the
\* connection is opened with the default timeout and no retry)
NeedsLock(p) ==
  pc[p] \in {"mat_insert", "mat_audit", "header", "line_insert", "update", "audit",
            "cons_update", "cons_audit", "clr_update", "clr_record", "aging_insert",
            "rcp_line", "rcp_header", "poc_update", "poc_record"}

Locked(p) ==
  /\ NeedsLock(p)
  /\ ~CanWrite(p)
  /\ Raise(p, "locked")
  /\ UNCHANGED mem

PostStep(p) ==
  \/ ApiCheck(p)
  \/ Validate(p)
  \/ MatSelect(p)
  \/ MatInsert(p)
  \/ MatAudit(p)
  \/ InsertHeader(p)
  \/ InsertLine(p)
  \/ SelectAccount(p)
  \/ UpdateBalance(p)
  \/ LogAudit(p)
  \/ PostCommit(p)

----------------------------------------------------------------------------
\* Invoices and payment clearing (db.py:265-313, 561-604;
\* payment_clearing.py:28-90).

\* add_invoice (db.py:265-313): paid_amount takes the column's default, 0.0
AddInvoice(p) ==
  /\ Free(p)
  /\ CanWrite(p)
  /\ \E n \in InvoiceNumbers, status \in InvoiceStatuses :
       /\ ~db.invoices[n].exists
       /\ db' = [db EXCEPT !.invoices[n] =
                   [exists |-> TRUE, status |-> status,
                    total_tax |-> InvoiceTax(n), total_amount |-> InvoiceTotal(n),
                    paid_amount |-> 0,
                    issue_date |-> InvoiceIssued(n), due_date |-> InvoiceDue(n)]]
       /\ work' = db'
  /\ pc' = [pc EXCEPT ![p] = "done"]
  /\ call' = [call EXCEPT ![p] = [IdleCall EXCEPT !.op = "add_invoice", !.result = "ok"]]
  /\ UNCHANGED <<lock, mem>>

\* update_invoice_payment (db.py:357-365), as api_record_invoice_payment
\* (api.py:365-372), the CLI (main.py:225) and the MCP tool call it: one UPDATE
\* that sets paid_amount to the amount given, and a commit
UpdateInvoicePayment(p) ==
  /\ Free(p)
  /\ CanWrite(p)
  /\ \E n \in InvoiceNumbers, paid_amount \in Payments :
       /\ db' = IF db.invoices[n].exists
                THEN [db EXCEPT !.invoices[n].paid_amount = paid_amount]
                ELSE db
       /\ work' = db'
       /\ call' = [call EXCEPT ![p] =
                     [IdleCall EXCEPT !.op = "update_invoice_payment",
                                      !.result = "ok"]]
  /\ pc' = [pc EXCEPT ![p] = "done"]
  /\ UNCHANGED <<lock, mem>>

\* the clearings recorded or under way
Pending(q) ==
  IF Free(q) THEN 0
  ELSE IF call[q].op = "clear" THEN 1
  ELSE IF call[q].op = "clear_many"
       THEN Len(call[q].invoice_numbers) - Len(call[q].results)
       ELSE 0

Clearing ==
  LET RECURSIVE sum(_)
      sum(S) == IF S = {} THEN 0
                ELSE LET q == CHOOSE x \in S : TRUE IN Pending(q) + sum(S \ {q})
  IN  Len(work.clearings) + sum(Callers)

\* a caller clears a payment against an invoice: through the clearing manager
\* (payment_clearing.py:28) or with clear_invoice_payment itself (db.py:561)
BeginClear(p) ==
  /\ Free(p)
  /\ Clearing < MaxClearings
  /\ \E n \in InvoiceNumbers, amount \in Payments, via \in {"manager", "db"} :
       /\ call' = [call EXCEPT ![p] =
                     [IdleCall EXCEPT !.op = "clear", !.via = via,
                                      !.code = n, !.amount = amount,
                                      !.clearing_reference = PaymentReference,
                                      !.clearing_method = "partial"]]
       /\ pc' = [pc EXCEPT ![p] = IF via = "manager" THEN "clr_list" ELSE "clr_select"]
  /\ UNCHANGED <<db, work, lock, mem>>

\* payment_clearing.py:48-56: the invoice must be among list_invoices('unpaid')
ClrList(p) ==
  /\ pc[p] = "clr_list"
  /\ LET invoice == Listed(list_invoices(View(p), "unpaid"), call[p].code)
     IN  IF invoice # NoInvoiceRow
         THEN /\ pc' = [pc EXCEPT ![p] = "clr_select"]
              /\ call' = [call EXCEPT ![p].invoice = invoice]
              /\ UNCHANGED <<db, work, lock>>
         ELSE Raise(p, "not_found")
  /\ UNCHANGED mem

\* db.py:569-578: SELECT customer_name, total_amount, paid_amount
ClrSelect(p) ==
  /\ pc[p] = "clr_select"
  /\ LET inv == View(p).invoices[call[p].code]
     IN  IF inv.exists
         THEN /\ pc' = [pc EXCEPT ![p] = "clr_update"]
              /\ call' = [call EXCEPT ![p].total_amount = inv.total_amount,
                                      ![p].current_paid = inv.paid_amount]
              /\ UNCHANGED <<db, work, lock>>
         ELSE Raise(p, "not_found")
  /\ UNCHANGED mem

\* a settled amount that stops at the invoice's total
new_paid_amount_capped(c) ==
  IF c.current_paid + c.amount > c.total_amount
  THEN c.total_amount
  ELSE c.current_paid + c.amount

\* db.py:579
new_paid_amount(c) == c.current_paid + c.amount

\* db.py:580
remaining_amount(c) == c.total_amount - new_paid_amount(c)

\* db.py:583-587: UPDATE invoices SET paid_amount = ?, paid_date = ?
ClrUpdate(p) ==
  /\ pc[p] = "clr_update"
  /\ Write(p, [View(p) EXCEPT !.invoices[call[p].code].paid_amount =
                 new_paid_amount(call[p])])
  /\ pc' = [pc EXCEPT ![p] = "clr_record"]
  /\ UNCHANGED <<call, mem>>

\* a clearing that keeps one record an invoice: the record of the invoice's
\* last clearing is replaced by the record of this one
ClrRecordReplacing(p) ==
  /\ pc[p] = "clr_record"
  /\ CanWrite(p)
  /\ LET c == call[p]
         others == SelectSeq(View(p).clearings, LAMBDA r : r.invoice_number # c.code)
     IN  db' = [View(p) EXCEPT !.clearings = Append(others,
                  [payment_type |-> "receivable",
                   payment_reference |-> c.clearing_reference,
                   invoice_number |-> c.code, po_number |-> "none",
                   original_amount |-> c.total_amount,
                   cleared_amount |-> c.amount,
                   remaining_amount |-> remaining_amount(c),
                   clearing_method |-> c.clearing_method])]
  /\ work' = db'
  /\ lock' = NoCaller
  /\ IF call[p].via = "manager"
     THEN pc' = [pc EXCEPT ![p] = "clr_return"] /\ UNCHANGED call
     ELSE /\ pc' = [pc EXCEPT ![p] = "done"]
          /\ call' = [call EXCEPT ![p] = Returned(call[p], "ok")]
  /\ UNCHANGED mem

\* db.py:590-604: add_payment_clearing (db.py:506-514: INSERT, commit) and the
\* return to the caller: the manager, or whoever called clear_invoice_payment
ClrRecord(p) ==
  /\ pc[p] = "clr_record"
  /\ CanWrite(p)
  /\ LET c == call[p]
     IN  db' = [View(p) EXCEPT !.clearings = Append(@,
                  [payment_type |-> "receivable",
                   payment_reference |-> c.clearing_reference,
                   invoice_number |-> c.code, po_number |-> "none",
                   original_amount |-> c.total_amount,
                   cleared_amount |-> c.amount,
                   remaining_amount |-> remaining_amount(c),
                   clearing_method |-> c.clearing_method])]
  /\ work' = db'
  /\ lock' = NoCaller
  /\ IF call[p].via = "manager"
     THEN pc' = [pc EXCEPT ![p] = "clr_return"] /\ UNCHANGED call
     ELSE /\ pc' = [pc EXCEPT ![p] = "done"]
          /\ call' = [call EXCEPT ![p] = Returned(call[p], "ok")]
  /\ UNCHANGED mem

\* payment_clearing.py:69-87: the invoice is listed again and the details of
\* the clearing are built from the row listed before and the row listed now
ClearingResult(c, updated_invoice) ==
  [original_amount |-> c.invoice[8],
   previous_paid |-> c.invoice[10],
   new_paid_amount |-> IF updated_invoice # NoInvoiceRow
                       THEN updated_invoice[10]
                       ELSE c.invoice[10] + c.amount,
   remaining_balance |-> IF updated_invoice # NoInvoiceRow
                         THEN updated_invoice[8] - updated_invoice[10]
                         ELSE 0]

\* the return goes to the caller, or to the loop of
\* clear_multiple_invoices_payment (payment_clearing.py:138-145)
ClrReturn(p) ==
  /\ pc[p] = "clr_return"
  /\ LET c == call[p]
         updated_invoice == Listed(list_invoices(View(p), "unpaid"), c.code)
         result == ClearingResult(c, updated_invoice)
     IN  IF c.op = "clear_many"
         THEN /\ call' = [call EXCEPT ![p] =
                           [c EXCEPT !.results = Append(@, result), !.i = @ + 1,
                                     !.code = IdleCall.code, !.amount = IdleCall.amount,
                                     !.invoice = IdleCall.invoice,
                                     !.total_amount = IdleCall.total_amount,
                                     !.current_paid = IdleCall.current_paid,
                                     !.clearing_reference = IdleCall.clearing_reference,
                                     !.clearing_method = IdleCall.clearing_method]]
              /\ pc' = [pc EXCEPT ![p] = "many_next"]
         ELSE /\ call' = [call EXCEPT ![p] = [Returned(c, "ok") EXCEPT !.ret = result]]
              /\ pc' = [pc EXCEPT ![p] = "done"]
  /\ UNCHANGED <<db, work, lock, mem>>

ClearStep(p) ==
  \/ ClrList(p)
  \/ ClrSelect(p)
  \/ ClrUpdate(p)
  \/ ClrRecord(p)
  \/ ClrReturn(p)

----------------------------------------------------------------------------
\* Clearing one payment across several invoices
\* (payment_clearing.py:92-244).

Min(a, b) == IF a < b THEN a ELSE b

RECURSIVE GCD(_, _)
GCD(a, b) == IF b = 0 THEN Abs(a) ELSE GCD(b, a % Abs(b))

\* total_amount * (outstanding / total_outstanding) (payment_clearing.py:185-186),
\* for total_outstanding > 0: the exact quotient, rounded down to a micro-unit;
\* common factors are taken out first to keep the product small
Share(total_amount, outstanding, total_outstanding) ==
  LET g1 == GCD(total_amount, total_outstanding)
      a  == total_amount \div g1
      c1 == total_outstanding \div g1
      g2 == GCD(outstanding, c1)
      b  == outstanding \div g2
      c  == c1 \div g2
  IN  (a * b) \div c

\* sum(inv['outstanding'] for inv in invoices) (payment_clearing.py:180)
RECURSIVE total_outstanding(_)
total_outstanding(invoices) ==
  IF invoices = <<>> THEN 0
  ELSE Head(invoices).outstanding + total_outstanding(Tail(invoices))

\* the proportional share without the cap at the invoice's outstanding amount
allocate_proportional_uncapped(invoices, total_amount) ==
  [k \in 1..Len(invoices) |->
     [invoice_number |-> invoices[k].invoice_number,
      amount |-> IF total_outstanding(invoices) > 0
                 THEN Share(total_amount, invoices[k].outstanding,
                            total_outstanding(invoices))
                 ELSE 0]]

\* payment_clearing.py:176-196
allocate_proportional(invoices, total_amount) ==
  [k \in 1..Len(invoices) |->
     [invoice_number |-> invoices[k].invoice_number,
      amount |-> IF total_outstanding(invoices) > 0
                 THEN Min(Share(total_amount, invoices[k].outstanding,
                                total_outstanding(invoices)),
                          invoices[k].outstanding)
                 ELSE 0]]

\* sorted(invoices, key=...) and sorted(..., reverse=True): Python's sort is
\* stable both ways, invoices with equal keys keep their order
RECURSIVE InsertSorted(_, _, _, _)
InsertSorted(x, sorted, key, reverse) ==
  IF sorted = <<>> THEN <<x>>
  ELSE IF (IF reverse THEN Head(sorted)[key] >= x[key] ELSE Head(sorted)[key] <= x[key])
       THEN <<Head(sorted)>> \o InsertSorted(x, Tail(sorted), key, reverse)
       ELSE <<x>> \o sorted

RECURSIVE SortedBy(_, _, _)
SortedBy(invoices, key, reverse) ==
  IF invoices = <<>> THEN <<>>
  ELSE InsertSorted(invoices[Len(invoices)],
                    SortedBy(SubSeq(invoices, 1, Len(invoices) - 1), key, reverse),
                    key, reverse)

\* the loop without the min: every invoice reached before the payment is
\* exhausted receives its whole outstanding amount
RECURSIVE allocate_in_order_unbounded(_, _)
allocate_in_order_unbounded(sorted_invoices, remaining) ==
  IF sorted_invoices = <<>> THEN <<>>
  ELSE LET invoice == Head(sorted_invoices)
           allocated_amount == IF remaining <= 0 THEN 0 ELSE invoice.outstanding
       IN  <<[invoice_number |-> invoice.invoice_number, amount |-> allocated_amount]>>
             \o allocate_in_order_unbounded(Tail(sorted_invoices),
                                            remaining - allocated_amount)

\* the loop of payment_clearing.py:206-218 and 230-242
RECURSIVE allocate_in_order(_, _)
allocate_in_order(sorted_invoices, remaining) ==
  IF sorted_invoices = <<>> THEN <<>>
  ELSE LET invoice == Head(sorted_invoices)
           allocated_amount == IF remaining <= 0 THEN 0
                               ELSE Min(remaining, invoice.outstanding)
       IN  <<[invoice_number |-> invoice.invoice_number, amount |-> allocated_amount]>>
             \o allocate_in_order(Tail(sorted_invoices),
                                  remaining - allocated_amount)

\* payment_clearing.py:198-220
allocate_oldest_first(invoices, total_amount) ==
  allocate_in_order(SortedBy(invoices, "issue_date", FALSE), total_amount)

\* payment_clearing.py:222-244
allocate_largest_first(invoices, total_amount) ==
  allocate_in_order(SortedBy(invoices, "outstanding", TRUE), total_amount)

\* payment_clearing.py:163-174
allocate_payment(invoices, total_amount, method) ==
  CASE method = "proportional"  -> allocate_proportional(invoices, total_amount)
    [] method = "oldest_first"  -> allocate_oldest_first(invoices, total_amount)
    [] method = "largest_first" -> allocate_largest_first(invoices, total_amount)

\* a caller clears one payment across a list of invoices (payment_clearing.py:92)
BeginMany(p) ==
  /\ Free(p)
  /\ \E invoice_numbers \in ManyInputs, amount \in TotalPayments,
        method \in AllocationMethods :
       /\ Clearing + Len(invoice_numbers) <= MaxClearings
       /\ call' = [call EXCEPT ![p] =
                     [IdleCall EXCEPT !.op = "clear_many", !.via = "manager", !.i = 1,
                                      !.invoice_numbers = invoice_numbers,
                                      !.total_payment_amount = amount,
                                      !.payment_reference = PaymentReference,
                                      !.allocation_method = method]]
       /\ pc' = [pc EXCEPT ![p] =
                   IF invoice_numbers = <<>> THEN "many_allocate" ELSE "many_load"]
  /\ UNCHANGED <<db, work, lock, mem>>

\* payment_clearing.py:115-128: one round of the loop over invoice_numbers
ManyLoad(p) ==
  /\ pc[p] = "many_load"
  /\ LET c == call[p]
         inv_num == c.invoice_numbers[c.i]
         inv == Listed(list_invoices(View(p), "unpaid"), inv_num)
         loaded == IF inv = NoInvoiceRow THEN c.invoices
                   ELSE Append(c.invoices,
                          [invoice_number |-> inv_num,
                           outstanding |-> inv[8] - inv[10],
                           total_amount |-> inv[8],
                           paid_amount |-> inv[10],
                           issue_date |-> inv[3]])
     IN  IF c.i < Len(c.invoice_numbers)
         THEN /\ call' = [call EXCEPT ![p].invoices = loaded, ![p].i = c.i + 1]
              /\ UNCHANGED pc
         ELSE /\ call' = [call EXCEPT ![p].invoices = loaded, ![p].i = 1]
              /\ pc' = [pc EXCEPT ![p] = "many_allocate"]
  /\ UNCHANGED <<db, work, lock, mem>>

\* payment_clearing.py:130-134
ManyAllocate(p) ==
  /\ pc[p] = "many_allocate"
  /\ LET c == call[p]
     IN  IF c.invoices = <<>>
         THEN Raise(p, "no_invoices")
         ELSE /\ call' = [call EXCEPT ![p].allocations =
                            allocate_payment(c.invoices, c.total_payment_amount,
                                             c.allocation_method),
                                      ![p].i = 1]
              /\ pc' = [pc EXCEPT ![p] = "many_next"]
              /\ UNCHANGED <<db, work, lock>>
  /\ UNCHANGED mem

\* f"{payment_reference}-{allocation['invoice_number']}" (payment_clearing.py:143)
Suffixed(payment_reference, invoice_number) ==
  payment_reference \o <<"-", invoice_number>>

\* payment_clearing.py:136-157: the loop over the allocations; each allocation
\* above 0 is cleared with clear_single_invoice_payment, on a connection of
\* its own
ManyNext(p) ==
  /\ pc[p] = "many_next"
  /\ LET c == call[p]
     IN  IF c.i > Len(c.allocations)
         THEN /\ pc' = [pc EXCEPT ![p] = "done"]
              /\ call' = [call EXCEPT ![p] = Returned(c, "ok")]
         ELSE IF c.allocations[c.i].amount > 0
         THEN /\ pc' = [pc EXCEPT ![p] = "clr_list"]
              /\ call' = [call EXCEPT
                            ![p].code = c.allocations[c.i].invoice_number,
                            ![p].amount = c.allocations[c.i].amount,
                            ![p].clearing_reference =
                              Suffixed(c.payment_reference,
                                       c.allocations[c.i].invoice_number),
                            ![p].clearing_method = "multiple"]
         ELSE /\ call' = [call EXCEPT ![p].i = c.i + 1]
              /\ UNCHANGED pc
  /\ UNCHANGED <<db, work, lock, mem>>

ManyStep(p) ==
  \/ ManyLoad(p)
  \/ ManyAllocate(p)
  \/ ManyNext(p)

----------------------------------------------------------------------------
\* The in-memory ledger (accounts.py, journal.py), driven by the CLI
\* (main.py:37-69).

\* journal.py:65-74: the balance after one line
MemApplyLine(type, balance, amount, is_debit) ==
  IF is_debit
  THEN IF type \in {"ASSET", "EXPENSE"} THEN balance + amount ELSE balance - amount
  ELSE IF type \in {"ASSET", "EXPENSE"} THEN balance - amount ELSE balance + amount

\* journal.py:62-74: the loop of Ledger.post_entry over the lines from line k on;
\* get_account (accounts.py:50-51) raises KeyError for an unknown code and the
\* loop is left with the balances changed so far
RECURSIVE post_entry_from(_, _, _)
post_entry_from(accounts, lines, k) ==
  IF k > Len(lines) THEN [accounts |-> accounts, raised |-> FALSE]
  ELSE LET l == lines[k]
           a == accounts[l.account_code]
       IN  IF ~a.exists THEN [accounts |-> accounts, raised |-> TRUE]
           ELSE post_entry_from(
                  [accounts EXCEPT ![l.account_code].balance =
                     MemApplyLine(a.type, a.balance, l.amount, l.is_debit)],
                  lines, k + 1)

\* accounts.py:45-48
MemAddAccount ==
  /\ \E code \in Codes :
       /\ ~chart[code].exists
       /\ chart' = [chart EXCEPT ![code] =
                      [exists |-> TRUE, type |-> TypeOfCode(code), balance |-> 0]]
  /\ UNCHANGED <<db, work, lock, pc, call, ledger, memPosts>>

\* main.py:64-69: JournalEntry(description, lines), then ledger.post_entry(entry)
MemPost ==
  /\ Started + memPosts < MaxEntries
  /\ \E lines \in EntryInputs :
       IF ~is_balanced(lines)
       THEN UNCHANGED mem                        \* journal.py:35-36, ValueError
       ELSE LET r == post_entry_from(chart, lines, 1)
            IN  /\ chart' = r.accounts
                /\ ledger' = IF r.raised THEN ledger ELSE Append(ledger, lines)
                /\ memPosts' = memPosts + 1
  /\ UNCHANGED <<db, work, lock, pc, call>>

\* one entry is posted on both paths: add_journal_entry is called with its
\* lines (db.py:181), directly or by a front end, and a JournalEntry is built from them and posted with
\* Ledger.post_entry (journal.py:32-36, 62-75)
BeginPostBoth(p) ==
  /\ Free(p)
  /\ Started < MaxEntries
  /\ memPosts < MaxEntries
  /\ \E lines \in EntryInputs, via \in {"db", "api"} :
       /\ call' = [call EXCEPT ![p] =
                     [IdleCall EXCEPT !.op = "post", !.via = via, !.lines = lines]]
       /\ pc' = [pc EXCEPT ![p] = IF via = "api" THEN "api_check" ELSE PostSteps.pro[1]]
       /\ IF ~is_balanced(lines)
          THEN UNCHANGED mem
          ELSE LET r == post_entry_from(chart, lines, 1)
               IN  /\ chart' = r.accounts
                   /\ ledger' = IF r.raised THEN ledger ELSE Append(ledger, lines)
                   /\ memPosts' = memPosts + 1
  /\ UNCHANGED <<db, work, lock>>

\* the same accounts, at balance 0, in the database and in the in-memory chart
InitBoth ==
  /\ \E S \in SUBSET Codes :
       /\ db = [EmptyDb EXCEPT !.accounts = ChartOf(S)]
       /\ chart = [c \in Codes |-> ChartOf(S)[c]]
  /\ work = db
  /\ lock = NoCaller
  /\ pc = [p \in Callers |-> "idle"]
  /\ call = [p \in Callers |-> IdleCall]
  /\ ledger = <<>>
  /\ memPosts = 0

NextBoth ==
  \/ BeginPostBoth("c1")
  \/ PostStep("c1")

SpecBoth == InitBoth /\ [][NextBoth]_vars

\* Saving and loading the chart of accounts and the ledger (main.py:79-92,
\* test_pyledger.py:32-48).

\* accounts.py:21-27 and 53-54: the list of the accounts' dicts
account_to_dict(code, account) ==
  [code |-> code, name |-> NameOfCode(code), type |-> account.type,
   balance |-> account.balance]
chart_to_dict(accounts) ==
  SeqOf({account_to_dict(c, accounts[c]) : c \in {x \in Codes : accounts[x].exists}})

\* accounts.py:29-36 and 56-62
chart_from_dict(data) ==
  [c \in Codes |->
     IF \E k \in 1..Len(data) : data[k].code = c
     THEN LET acc_data == data[CHOOSE k \in 1..Len(data) : data[k].code = c]
          IN  [exists |-> TRUE, type |-> acc_data.type, balance |-> acc_data.balance]
     ELSE NoAccount]

\* journal.py:13-18, 43-47 and 77-78: the list of the entries' dicts
ledger_to_dict(entries) ==
  [k \in 1..Len(entries) |->
     [lines |-> [j \in 1..Len(entries[k]) |->
                   [account_code |-> entries[k][j].account_code,
                    amount |-> entries[k][j].amount,
                    is_debit |-> entries[k][j].is_debit]]]]

\* journal.py:80-86: a new ledger over the chart given; every entry of the
\* file is built again (journal.py:49-52, 32-36) and posted with post_entry
RECURSIVE ledger_from_dict(_, _, _, _)
ledger_from_dict(data, accounts, entries, k) ==
  IF k > Len(data) THEN [accounts |-> accounts, entries |-> entries, raised |-> FALSE]
  ELSE LET lines == [j \in 1..Len(data[k].lines) |->
                       Line(data[k].lines[j].account_code, data[k].lines[j].amount,
                            data[k].lines[j].is_debit)]
           r == post_entry_from(accounts, lines, 1)
       IN  IF ~is_balanced(lines) \/ r.raised
           THEN [accounts |-> accounts, entries |-> entries, raised |-> TRUE]
           ELSE ledger_from_dict(data, r.accounts, Append(entries, lines), k + 1)

\* save_data, then load_data: the chart and the ledger in use are the loaded
\* ones; an exception in load_data leaves the ones in use
SaveLoad ==
  /\ memPosts + Len(ledger) <= MaxReplayed
  /\ LET accounts_file == chart_to_dict(chart)
         entries_file == ledger_to_dict(ledger)
         loaded == ledger_from_dict(entries_file, chart_from_dict(accounts_file),
                                    <<>>, 1)
     IN  IF loaded.raised
         THEN UNCHANGED <<chart, ledger>>
         ELSE chart' = loaded.accounts /\ ledger' = loaded.entries
  /\ memPosts' = memPosts + Len(ledger)
  /\ UNCHANGED <<db, work, lock, pc, call>>

----------------------------------------------------------------------------
\* Specifications.

\* two callers keep the chart of accounts and post journal entries
Next ==
  \E p \in Callers :
    \/ AddAccount(p)
    \/ BeginPost(p)
    \/ PostStep(p)
    \/ Locked(p)

Spec == Init /\ [][Next]_vars

\* the same, with the conservatism adjustment among the operations
NextAdjust ==
  \/ Next
  \/ \E p \in Callers :
       \/ BeginConservatism(p)
       \/ ConservatismStep(p)

SpecAdjust == Init /\ [][NextAdjust]_vars

\* one caller at a time: the database ledger and the in-memory ledger
NextSeq ==
  \/ AddAccount("c1")
  \/ BeginPost("c1")
  \/ PostStep("c1")
  \/ MemAddAccount
  \/ MemPost

SpecSeq == Init /\ [][NextSeq]_vars

\* two callers post to a chart of accounts that has been set up
InitChart ==
  /\ db = [EmptyDb EXCEPT !.accounts = ChartOf(Codes)]
  /\ work = db
  /\ lock = NoCaller
  /\ pc = [p \in Callers |-> "idle"]
  /\ call = [p \in Callers |-> IdleCall]
  /\ chart = [c \in Codes |-> NoAccount]
  /\ ledger = <<>>
  /\ memPosts = 0

NextRace ==
  \E p \in Callers :
    \/ BeginPost(p)
    \/ PostStep(p)
    \/ Locked(p)

SpecRace == InitChart /\ [][NextRace]_vars

\* two callers create invoices and clear payments against them
NextClear ==
  \E p \in Callers :
    \/ AddInvoice(p)
    \/ BeginClear(p)
    \/ ClearStep(p)
    \/ Locked(p)

SpecClear == Init /\ [][NextClear]_vars

\* one caller creates invoices and clears payments against them
NextClearOne ==
  \/ AddInvoice("c1")
  \/ BeginClear("c1")
  \/ ClearStep("c1")

SpecClearOne == Init /\ [][NextClearOne]_vars

\* one caller creates invoices and clears payments across several of them,
\* while another clears single payments
NextMany ==
  \/ AddInvoice("c1")
  \/ BeginMany("c1")
  \/ ManyStep("c1")
  \/ BeginClear("c2")
  \/ \E p \in Callers :
       \/ ClearStep(p)
       \/ Locked(p)

SpecMany == Init /\ [][NextMany]_vars

\* one caller creates invoices and clears payments, singly and across several
NextManyOne ==
  \/ AddInvoice("c1")
  \/ BeginClear("c1")
  \/ BeginMany("c1")
  \/ ManyStep("c1")
  \/ ClearStep("c1")

SpecManyOne == Init /\ [][NextManyOne]_vars

\* the CLI keeps the in-memory chart and ledger, saves them and loads them
NextSaveLoad ==
  \/ MemAddAccount
  \/ MemPost
  \/ SaveLoad

SpecSaveLoad == Init /\ [][NextSaveLoad]_vars

\* one caller creates invoices, clears payments against them and records
\* payments directly
NextPayments ==
  \/ AddInvoice("c1")
  \/ Len(db.clearings) < MaxRecords /\ BeginClear("c1")
  \/ ClearStep("c1")
  \/ UpdateInvoicePayment("c1")

SpecPayments == Init /\ [][NextPayments]_vars

\* one caller keeps the records of a business whose chart of accounts has been
\* set up: it posts journal entries, creates invoices and clears payments
NextRecords ==
  \/ Len(db.entries) + Len(db.clearings) < MaxRecords /\ BeginPost("c1")
  \/ Len(db.entries) + Len(db.clearings) < MaxRecords /\ BeginClear("c1")
  \/ PostStep("c1")
  \/ AddInvoice("c1")
  \/ ClearStep("c1")

SpecRecords == InitChart /\ [][NextRecords]_vars

----------------------------------------------------------------------------
\* Aging of receivables (payment_clearing.py:246-296, db.py:651-783).

Max(a, b) == IF a > b THEN a ELSE b

\* the aging periods with their upper limits left out of each period
aging_period_exclusive(days_overdue) ==
  IF days_overdue <= 0 THEN "current"
  ELSE IF days_overdue < 30 THEN "30_days"
  ELSE IF days_overdue < 60 THEN "60_days"
  ELSE IF days_overdue < 90 THEN "90_days"
  ELSE "over_90_days"

\* db.py:755-765
aging_period(days_overdue) ==
  IF days_overdue <= 0 THEN "current"
  ELSE IF days_overdue <= 30 THEN "30_days"
  ELSE IF days_overdue <= 60 THEN "60_days"
  ELSE IF days_overdue <= 90 THEN "90_days"
  ELSE "over_90_days"

\* db.py:721-729: SELECT ... FROM invoices WHERE paid_amount < total_amount
\* ORDER BY customer_name, issue_date (the invoices are one customer's);
\* julianday(?) - julianday(issue_date) is the number of days between the dates
AgingItems(d, schedule_date) ==
  SortedBy(SeqOf({ [invoice_number |-> n,
                    original_amount |-> d.invoices[n].total_amount,
                    paid_amount |-> d.invoices[n].paid_amount,
                    current_balance |-> d.invoices[n].total_amount - d.invoices[n].paid_amount,
                    days_outstanding |-> schedule_date - d.invoices[n].issue_date,
                    issue_date |-> d.invoices[n].issue_date]
                   : n \in {m \in InvoiceNumbers :
                              /\ d.invoices[m].exists
                              /\ d.invoices[m].paid_amount < d.invoices[m].total_amount} }),
           "issue_date", FALSE)

\* a caller asks for the aging report of a date (api.py:569-580)
BeginAging(p) ==
  /\ Free(p)
  /\ Len(db.aging) < MaxAgingRows
  /\ \E schedule_date \in ReportDates :
       call' = [call EXCEPT ![p] =
                  [IdleCall EXCEPT !.op = "aging", !.via = "manager",
                                   !.schedule_date = schedule_date]]
  /\ pc' = [pc EXCEPT ![p] = "aging_select"]
  /\ UNCHANGED <<db, work, lock, mem>>

\* db.py:720-742: the outstanding invoices are selected
AgingSelect(p) ==
  /\ pc[p] = "aging_select"
  /\ LET items == AgingItems(View(p), call[p].schedule_date)
     IN  /\ call' = [call EXCEPT ![p].items = items, ![p].i = 1]
         /\ pc' = [pc EXCEPT ![p] = IF items = <<>> THEN "aging_summary"
                                    ELSE "aging_insert"]
  /\ UNCHANGED <<db, work, lock, mem>>

\* db.py:745-780, one round of the loop: days_overdue and the aging period of
\* the item, and add_aging_schedule (db.py:670-679: INSERT, commit)
AgingInsert(p) ==
  /\ pc[p] = "aging_insert"
  /\ CanWrite(p)
  /\ LET c == call[p]
         item == c.items[c.i]
         days_overdue == Max(0, item.days_outstanding)
     IN  /\ db' = [View(p) EXCEPT !.aging = Append(@,
                     [schedule_date |-> c.schedule_date,
                      invoice_number |-> item.invoice_number,
                      original_amount |-> item.original_amount,
                      current_balance |-> item.current_balance,
                      days_overdue |-> days_overdue,
                      aging_period |-> aging_period(days_overdue)])]
         /\ work' = db'
         /\ lock' = NoCaller
         /\ call' = [call EXCEPT ![p].i = c.i + 1]
         /\ pc' = [pc EXCEPT ![p] = IF c.i + 1 > Len(c.items) THEN "aging_summary"
                                    ELSE "aging_insert"]
  /\ UNCHANGED mem

\* payment_clearing.py:266-294: get_aging_schedule (db.py:681-712) returns
\* every stored row of the schedule type; the rows are counted and their
\* current balances summed per aging period
RECURSIVE AgingSummary(_)
AgingSummary(aging_data) ==
  IF aging_data = <<>> THEN NoReport.aging_summary
  ELSE LET item == Head(aging_data)
           rest == AgingSummary(Tail(aging_data))
       IN  [rest EXCEPT ![item.aging_period] =
              [count |-> @.count + 1, amount |-> @.amount + item.current_balance]]

RECURSIVE SumOver(_, _, _)
SumOver(aging_summary, periods, field) ==
  IF periods = {} THEN 0
  ELSE LET period == CHOOSE x \in periods : TRUE
       IN  aging_summary[period][field] + SumOver(aging_summary, periods \ {period}, field)

AgingReturn(p) ==
  /\ pc[p] = "aging_summary"
  /\ LET c == call[p]
         aging_summary == AgingSummary(View(p).aging)
     IN  call' = [call EXCEPT ![p] =
                    [Returned(c, "ok") EXCEPT
                       !.schedule_date = c.schedule_date,
                       !.report =
                         [items_processed |-> Len(c.items),
                          aging_summary |-> aging_summary,
                          total_amount |-> SumOver(aging_summary, AgingPeriods, "amount"),
                          total_count |-> SumOver(aging_summary, AgingPeriods, "count")]]]
  /\ pc' = [pc EXCEPT ![p] = "done"]
  /\ UNCHANGED <<db, work, lock, mem>>

AgingStep(p) ==
  \/ AgingSelect(p)
  \/ AgingInsert(p)
  \/ AgingReturn(p)

\* one caller creates invoices, clears payments and asks for aging reports
NextAging ==
  \/ AddInvoice("c1")
  \/ BeginClear("c1")
  \/ ClearStep("c1")
  \/ BeginAging("c1")
  \/ AgingStep("c1")

SpecAging == Init /\ [][NextAging]_vars

\* One aging run over two unpaid invoices, for every report date from before
\* their issue to more than 90 days after it: the invoices have been created
\* (db.py:265-313) and the caller stands at the SELECT of generate_aging_report.
FirstReportDate == 10
LastReportDate == 110

InitAgingDates ==
  /\ db = [EmptyDb EXCEPT !.invoices =
            [n \in InvoiceNumbers |->
               [exists |-> TRUE, status |-> "unpaid",
                total_tax |-> InvoiceTax(n), total_amount |-> InvoiceTotal(n),
                paid_amount |-> 0,
                issue_date |-> InvoiceIssued(n), due_date |-> InvoiceDue(n)]]]
  /\ work = db
  /\ lock = NoCaller
  /\ pc = [p \in Callers |-> IF p = "c1" THEN "aging_select" ELSE "idle"]
  /\ \E schedule_date \in FirstReportDate..LastReportDate :
       call = [p \in Callers |->
                 IF p = "c1"
                 THEN [IdleCall EXCEPT !.op = "aging", !.via = "manager",
                                       !.schedule_date = schedule_date]
                 ELSE IdleCall]
  /\ chart = [c \in Codes |-> NoAccount]
  /\ ledger = <<>>
  /\ memPosts = 0

NextAgingDates == AgingStep("c1")

SpecAgingDates == InitAgingDates /\ [][NextAgingDates]_vars

----------------------------------------------------------------------------
\* The allocation strategies on their own (payment_clearing.py:163-244): the
\* caller stands at the call of _allocate_payment (payment_clearing.py:134)
\* with a list of loaded invoices, a payment and a strategy.

MaxAllocated == 3

\* loaded invoices (payment_clearing.py:121-127): two with equal outstanding
\* amounts, one settled exactly and one over-paid
LoadedInvoice(invoice_number, total, paid, issue_date) ==
  [invoice_number |-> invoice_number, outstanding |-> total - paid,
   total_amount |-> total, paid_amount |-> paid, issue_date |-> issue_date]

LoadedPool ==
  { LoadedInvoice("INV1", 4000000, 0, 15),
    LoadedInvoice("INV2", 1000000, 0, 10),
    LoadedInvoice("INV3", 1000000, 0, 20),
    LoadedInvoice("INV4", 1000000, 1000000, 5),
    LoadedInvoice("INV5", 1000000, 2000000, 25) }

LoadedLists ==
  UNION { { l \in [1..m -> LoadedPool] : \A i, j \in 1..m : l[i] = l[j] => i = j }
          : m \in 0..MaxAllocated }

AllocPayments == {0, 3000000, 6000000, 12000000}

InitAlloc ==
  /\ db = EmptyDb
  /\ work = EmptyDb
  /\ lock = NoCaller
  /\ pc = [p \in Callers |-> IF p = "c1" THEN "many_allocate" ELSE "idle"]
  /\ \E invoices \in LoadedLists, total_amount \in AllocPayments,
        method \in AllocationMethods :
       call = [p \in Callers |->
                 IF p = "c1"
                 THEN [IdleCall EXCEPT
                         !.op = "clear_many", !.via = "manager", !.i = 1,
                         !.invoice_numbers =
                           [k \in 1..Len(invoices) |-> invoices[k].invoice_number],
                         !.invoices = invoices,
                         !.total_payment_amount = total_amount,
                         !.allocation_method = method]
                 ELSE IdleCall]
  /\ chart = [c \in Codes |-> NoAccount]
  /\ ledger = <<>>
  /\ memPosts = 0

NextAlloc == ManyAllocate("c1")

SpecAlloc == InitAlloc /\ [][NextAlloc]_vars

----------------------------------------------------------------------------
\* Purchase orders (db.py:367-481, 606-649).

\* the share of an amount that a tax rate in percent makes
Taxed(amount, tax_rate) == (amount * tax_rate) \div 100

\* db.py:374-401: the header with its totals and the lines, one commit
AddPurchaseOrder(p) ==
  /\ Free(p)
  /\ CanWrite(p)
  /\ \E po \in PONumbers :
       /\ ~db.purchase_orders[po].exists
       /\ LET lines == POLines(po)
              subtotal == SumSeq([k \in 1..Len(lines) |->
                                    lines[k].quantity * lines[k].unit_price])
              total_tax == SumSeq([k \in 1..Len(lines) |->
                                     Taxed(lines[k].quantity * lines[k].unit_price,
                                           lines[k].tax_rate)])
          IN  db' = [db EXCEPT
                !.purchase_orders[po] =
                   [NoPurchaseOrder EXCEPT !.exists = TRUE,
                                           !.total_amount = subtotal + total_tax],
                !.purchase_order_lines = @ \o
                   [k \in 1..Len(lines) |->
                      [po_number |-> po, quantity |-> lines[k].quantity,
                       unit_price |-> lines[k].unit_price,
                       tax_rate |-> lines[k].tax_rate,
                       received_quantity |-> 0, received_subtotal |-> 0,
                       received_tax_amount |-> 0, received_total |-> 0]]]
       /\ work' = db'
  /\ pc' = [pc EXCEPT ![p] = "done"]
  /\ call' = [call EXCEPT ![p] =
                [IdleCall EXCEPT !.op = "add_purchase_order", !.result = "ok"]]
  /\ UNCHANGED <<lock, mem>>

\* a receipt is recorded against a line of a purchase order (api.py:492,
\* main.py:358, mcp_server.py:688)
BeginReceipt(p) ==
  /\ Free(p)
  /\ \E po \in PONumbers, line_id \in LineIds, quantity \in ReceivedQuantities :
       call' = [call EXCEPT ![p] =
                  [IdleCall EXCEPT !.op = "receipt", !.po_number = po,
                                   !.line_id = line_id,
                                   !.received_quantity = quantity]]
  /\ pc' = [pc EXCEPT ![p] = "rcp_line"]
  /\ UNCHANGED <<db, work, lock, mem>>

\* db.py:457-463: UPDATE purchase_order_lines ... WHERE id = ?
RcpLine(p) ==
  /\ pc[p] = "rcp_line"
  /\ LET c == call[p]
         d == View(p)
         received(line) ==
           [line EXCEPT
              !.received_quantity = c.received_quantity,
              !.received_subtotal = c.received_quantity * line.unit_price,
              !.received_tax_amount =
                 Taxed(c.received_quantity * line.unit_price, line.tax_rate),
              !.received_total =
                 Taxed(c.received_quantity * line.unit_price, 100 + line.tax_rate)]
     IN  Write(p, [d EXCEPT !.purchase_order_lines =
                     [k \in 1..Len(@) |-> IF k = c.line_id THEN received(@[k])
                                          ELSE @[k]]])
  /\ pc' = [pc EXCEPT ![p] = "rcp_header"]
  /\ UNCHANGED <<call, mem>>

\* SELECT SUM(field) FROM purchase_order_lines WHERE po_number = ?
SumOfLines(d, po_number, field) ==
  LET lines == SelectSeq(d.purchase_order_lines, LAMBDA l : l.po_number = po_number)
  IN  SumSeq([k \in 1..Len(lines) |-> lines[k][field]])

\* db.py:465-481: UPDATE purchase_orders SET the received totals to the sums
\* over the lines of po_number, and the commit
RcpHeader(p) ==
  /\ pc[p] = "rcp_header"
  /\ CanWrite(p)
  /\ LET c == call[p]
         d == View(p)
     IN  db' = IF d.purchase_orders[c.po_number].exists
               THEN [d EXCEPT !.purchase_orders[c.po_number] =
                       [@ EXCEPT
                          !.received_subtotal =
                             SumOfLines(d, c.po_number, "received_subtotal"),
                          !.received_tax =
                             SumOfLines(d, c.po_number, "received_tax_amount"),
                          !.received_total =
                             SumOfLines(d, c.po_number, "received_total")]]
               ELSE d
  /\ work' = db'
  /\ lock' = NoCaller
  /\ pc' = [pc EXCEPT ![p] = "done"]
  /\ call' = [call EXCEPT ![p] = Returned(call[p], "ok")]
  /\ UNCHANGED mem

ReceiptStep(p) ==
  \/ RcpLine(p)
  \/ RcpHeader(p)

\* a payment is cleared against a purchase order (db.py:606)
BeginPOClear(p) ==
  /\ Free(p)
  /\ Len(work.clearings) < MaxClearings
  /\ \E po \in PONumbers, payment_amount \in POPayments :
       call' = [call EXCEPT ![p] =
                  [IdleCall EXCEPT !.op = "clear_po", !.po_number = po,
                                   !.amount = payment_amount,
                                   !.clearing_reference = PaymentReference,
                                   !.clearing_method = "partial"]]
  /\ pc' = [pc EXCEPT ![p] = "poc_select"]
  /\ UNCHANGED <<db, work, lock, mem>>

\* db.py:613-623: SELECT supplier_name, total_amount, received_total
PocSelect(p) ==
  /\ pc[p] = "poc_select"
  /\ LET po == View(p).purchase_orders[call[p].po_number]
     IN  IF po.exists
         THEN /\ pc' = [pc EXCEPT ![p] = "poc_update"]
              /\ call' = [call EXCEPT ![p].total_amount = po.total_amount,
                                      ![p].current_received = po.received_total]
              /\ UNCHANGED <<db, work, lock>>
         ELSE Raise(p, "not_found")
  /\ UNCHANGED mem

\* db.py:624-625
new_received_amount(c) == c.current_received + c.amount

\* db.py:628-632: UPDATE purchase_orders SET received_total = ?
PocUpdate(p) ==
  /\ pc[p] = "poc_update"
  /\ Write(p, [View(p) EXCEPT !.purchase_orders[call[p].po_number].received_total =
                 new_received_amount(call[p])])
  /\ pc' = [pc EXCEPT ![p] = "poc_record"]
  /\ UNCHANGED <<call, mem>>

\* db.py:634-649: add_payment_clearing (INSERT, commit)
PocRecord(p) ==
  /\ pc[p] = "poc_record"
  /\ CanWrite(p)
  /\ LET c == call[p]
     IN  db' = [View(p) EXCEPT !.clearings = Append(@,
                  [payment_type |-> "payable",
                   payment_reference |-> c.clearing_reference,
                   invoice_number |-> "none", po_number |-> c.po_number,
                   original_amount |-> c.total_amount,
                   cleared_amount |-> c.amount,
                   remaining_amount |-> c.total_amount - new_received_amount(c),
                   clearing_method |-> c.clearing_method])]
  /\ work' = db'
  /\ lock' = NoCaller
  /\ pc' = [pc EXCEPT ![p] = "done"]
  /\ call' = [call EXCEPT ![p] = Returned(call[p], "ok")]
  /\ UNCHANGED mem

POClearStep(p) ==
  \/ PocSelect(p)
  \/ PocUpdate(p)
  \/ PocRecord(p)

\* one caller creates purchase orders, records receipts and clears payments
NextPO ==
  \/ AddPurchaseOrder("c1")
  \/ BeginReceipt("c1")
  \/ ReceiptStep("c1")
  \/ BeginPOClear("c1")
  \/ POClearStep("c1")

SpecPO == Init /\ [][NextPO]_vars

----------------------------------------------------------------------------
\* Financial statements (reports.py, api.py:498-529) and the books of a
\* business (accounting_tests.py:234-340).

\* a dict keyed by account code: the balances of the accounts of S
Balances(accounts, S) == [c \in S |-> accounts[c].balance]

\* the accounts of one type
OfType(accounts, type) ==
  {c \in AllCodes : accounts[c].exists /\ accounts[c].type = type}

\* sum(dict.values())
SumValues(dict) ==
  LET RECURSIVE sum(_)
      sum(S) == IF S = {} THEN 0
                ELSE LET c == CHOOSE x \in S : TRUE IN dict[c] + sum(S \ {c})
  IN  sum(DOMAIN dict)

\* reports.py:3-10
balance_sheet(accounts) ==
  [assets |-> Balances(accounts, OfType(accounts, "ASSET")),
   liabilities |-> Balances(accounts, OfType(accounts, "LIABILITY")),
   equity |-> Balances(accounts, OfType(accounts, "EQUITY"))]

\* an income statement that reports the revenues as the net income
income_statement_without_expenses(accounts) ==
  LET revenues == Balances(accounts, OfType(accounts, "REVENUE"))
      expenses == Balances(accounts, OfType(accounts, "EXPENSE"))
  IN  [revenues |-> revenues, expenses |-> expenses,
       net_income |-> SumValues(revenues)]

\* reports.py:12-19
income_statement(accounts) ==
  LET revenues == Balances(accounts, OfType(accounts, "REVENUE"))
      expenses == Balances(accounts, OfType(accounts, "EXPENSE"))
  IN  [revenues |-> revenues, expenses |-> expenses,
       net_income |-> SumValues(revenues) - SumValues(expenses)]

\* str.lower() on the letters of the alphabet
UpperCase ==
  <<"A", "B", "C", "D", "E", "F", "G", "H", "I", "J", "K", "L", "M",
    "N", "O", "P", "Q", "R", "S", "T", "U", "V", "W", "X", "Y", "Z">>
LowerCase ==
  <<"a", "b", "c", "d", "e", "f", "g", "h", "i", "j", "k", "l", "m",
    "n", "o", "p", "q", "r", "s", "t", "u", "v", "w", "x", "y", "z">>
lower(name) ==
  [i \in 1..Len(name) |->
     IF \E k \in 1..26 : UpperCase[k] = name[i]
     THEN LowerCase[CHOOSE k \in 1..26 : UpperCase[k] = name[i]]
     ELSE name[i]]

\* word in text
Contains(text, word) ==
  \E i \in 0..(Len(text) - Len(word)) : SubSeq(text, i + 1, i + Len(word)) = word

\* reports.py:21-27
cash_flow_report(accounts) ==
  LET cash_accounts ==
        Balances(accounts,
                 {c \in AllCodes : /\ accounts[c].exists
                                   /\ Contains(lower(NameOfCode(c)),
                                               <<"c", "a", "s", "h">>)})
  IN  [cash_accounts |-> cash_accounts, total_cash |-> SumValues(cash_accounts)]

StatementKinds == {"balance_sheet", "income_statement", "cash_flow"}

StatementOf(kind, accounts) ==
  CASE kind = "balance_sheet" -> balance_sheet(accounts)
    [] kind = "income_statement" -> income_statement(accounts)
    [] kind = "cash_flow" -> cash_flow_report(accounts)

\* a report that starts a new period: it zeroes the revenue and expense
\* accounts it has read
ReportResetting(p) ==
  /\ Free(p)
  /\ CanWrite(p)
  /\ \E kind \in StatementKinds :
       call' = [call EXCEPT ![p] =
                  [IdleCall EXCEPT !.op = "report", !.kind = kind,
                                   !.read = db.accounts,
                                   !.statement = StatementOf(kind, db.accounts),
                                   !.result = "ok"]]
  /\ db' = [db EXCEPT !.accounts =
              [c \in AllCodes |->
                 IF db.accounts[c].type \in {"REVENUE", "EXPENSE"}
                 THEN [db.accounts[c] EXCEPT !.balance = 0]
                 ELSE db.accounts[c]]]
  /\ work' = db'
  /\ pc' = [pc EXCEPT ![p] = "done"]
  /\ UNCHANGED <<lock, mem>>

\* the report routes (api.py:498-529): a new connection reads the accounts
\* with list_accounts, builds the chart and computes the statement from it
Report(p) ==
  /\ Free(p)
  /\ \E kind \in StatementKinds :
       call' = [call EXCEPT ![p] =
                  [IdleCall EXCEPT !.op = "report", !.kind = kind,
                                   !.read = db.accounts,
                                   !.statement = StatementOf(kind, db.accounts),
                                   !.result = "ok"]]
  /\ pc' = [pc EXCEPT ![p] = "done"]
  /\ UNCHANGED <<db, work, lock, mem>>

\* the entries the business posts: a cash sale of 3.00, an expense of 1.00
\* paid in cash, and a cash sale whose debit is 0.008 more than its credit
BookEntries ==
  { << Debit("1000", 3000000), Credit("4000", 3000000) >>,
    << Debit("5000", 1000000), Credit("1000", 1000000) >>,
    << Debit("1000", 1008000), Credit("4000", 1000000) >> }

\* the number of entries the business posts
MaxBookEntries == 3

BeginBookPost(p) ==
  /\ Free(p)
  /\ Started < MaxBookEntries
  /\ \E lines \in BookEntries, via \in {"db", "api"} :
       /\ call' = [call EXCEPT ![p] =
                     [IdleCall EXCEPT !.op = "post", !.via = via, !.lines = lines]]
       /\ pc' = [pc EXCEPT ![p] = IF via = "api" THEN "api_check" ELSE PostSteps.pro[1]]
  /\ UNCHANGED <<db, work, lock, mem>>

\* the closing entry (accounting_tests.py:300-307): a debit of each revenue
\* account and a credit of each expense account by its balance, and the net
\* income to Retained Earnings
closing_lines(accounts) ==
  LET is == income_statement(accounts)
      open(dict) == SeqOf({c \in DOMAIN dict : dict[c] # 0})
      revenues == open(is.revenues)
      expenses == open(is.expenses)
  IN  [k \in 1..Len(revenues) |-> Debit(revenues[k], is.revenues[revenues[k]])]
      \o [k \in 1..Len(expenses) |-> Credit(expenses[k], is.expenses[expenses[k]])]
      \o (IF is.net_income > 0 THEN << Credit("3100", is.net_income) >>
          ELSE IF is.net_income < 0 THEN << Debit("3100", 0 - is.net_income) >>
          ELSE <<>>)

\* the business closes its books (accounting_tests.py:290-307): it reads the
\* accounts, computes the income statement and posts the closing entry
BeginClosing(p) ==
  /\ Free(p)
  /\ Started < MaxBookEntries
  /\ closing_lines(db.accounts) # <<>>
  /\ call' = [call EXCEPT ![p] =
                [IdleCall EXCEPT !.op = "post", !.via = "db", !.kind = "closing",
                                 !.read = db.accounts,
                                 !.statement = income_statement(db.accounts),
                                 !.lines = closing_lines(db.accounts)]]
  /\ pc' = [pc EXCEPT ![p] = PostSteps.pro[1]]
  /\ UNCHANGED <<db, work, lock, mem>>

\* the chart of accounts has been set up (accounting_tests.py:13-37)
InitBooks ==
  /\ db = [EmptyDb EXCEPT !.accounts = ChartOf(BookCodes)]
  /\ work = db
  /\ lock = NoCaller
  /\ pc = [p \in Callers |-> "idle"]
  /\ call = [p \in Callers |-> IdleCall]
  /\ chart = [c \in Codes |-> NoAccount]
  /\ ledger = <<>>
  /\ memPosts = 0

NextBooks ==
  \/ BeginBookPost("c1")
  \/ BeginClosing("c1")
  \/ PostStep("c1")
  \/ Report("c1")

SpecBooks == InitBooks /\ [][NextBooks]_vars

----------------------------------------------------------------------------
\* What the claims are stated with.

\* the sign rule: a debit adds and a credit subtracts for Asset and Expense
\* accounts; a debit subtracts and a credit adds for the other types
SignedEffect(type, amount, is_debit) ==
  IF (type \in {"ASSET", "EXPENSE"}) = is_debit THEN amount ELSE 0 - amount

\* the sum of the signed effects of the lines of `lines` that name `code`
RECURSIVE EffectOn(_, _, _)
EffectOn(type, code, lines) ==
  IF lines = <<>> THEN 0
  ELSE (IF Head(lines).account_code = code
        THEN SignedEffect(type, Head(lines).amount, Head(lines).is_debit)
        ELSE 0) + EffectOn(type, code, Tail(lines))

\* the committed journal lines of entry e
LinesOf(d, e) == SelectSeq(d.lines, LAMBDA l : l.entry_id = e)

\* the rows of s after its first n
After(s, n) == SubSeq(s, n + 1, Len(s))

\* this step is a step of caller p
StepOf(p) == <<pc[p], call[p]>>' # <<pc[p], call[p]>>

Running(p, op) == ~Free(p) /\ call[p].op = op

\* this step ends p's call with the given result
Ends(p, result) == pc[p] # "done" /\ pc'[p] = "done" /\ call'[p].result = result

----------------------------------------------------------------------------
\* C1: every account's stored balance equals the sum of the signed effects of
\* the committed journal lines that reference it; nothing but a post changes
\* a balance.
C1_BalanceIsSumOfLines ==
  \A code \in Codes :
    db.accounts[code].exists =>
      db.accounts[code].balance = EffectOn(db.accounts[code].type, code, db.lines)

\* C2: a post is rejected when its debit and credit totals differ by more
\* than 1e-6 (no entry id is ever given to such a post), so every committed
\* journal entry has debit and credit totals within 1e-6 of each other.
C2_CommittedEntriesBalanced ==
  /\ \A p \in Callers :
       (Running(p, "post") /\ call[p].entry_id # 0) =>
         Abs(total_debits(call[p].lines) - total_credits(call[p].lines)) <= Eps
  /\ \A k \in 1..Len(db.entries) :
       LET ls == LinesOf(db, db.entries[k])
       IN  Abs(total_debits(ls) - total_credits(ls)) <= Eps

\* C3: a post that fails because the entry is unbalanced leaves the store as it
\* was: none of its steps changes a balance, a journal entry or a journal line,
\* committed or not, and it ends with the unbalanced error.
FailsUnbalanced(c) ==
  /\ c.op = "post"
  /\ \/ ~DbBalanced(c.lines)
     \/ c.via = "api" /\ ~ApiBalanced(c.lines)

C3_UnbalancedPostChangesNothing ==
  [][\A p \in Callers :
       /\ (~Free(p) /\ FailsUnbalanced(call[p]) /\ StepOf(p)) =>
            /\ UNCHANGED <<db, work, lock>>
            /\ pc'[p] = "done" => call'[p].result = "unbalanced"
       /\ Ends(p, "unbalanced") => FailsUnbalanced(call[p])]_vars

C3_Witness ==
  \E p \in Callers :
    /\ pc[p] = "done" /\ call[p].op = "post" /\ call[p].result = "unbalanced"
    /\ db.entries # <<>>
    /\ \E code \in Codes : db.accounts[code].balance # 0

C5_PostIsAtomic ==
  \A p \in Callers :
    (Running(p, "post") /\ call[p].entry_id # 0) =>
      \A k \in 1..Len(db.entries) : db.entries[k] # call[p].entry_id

\* C6: a post with a line whose account does not exist is rejected: no post
\* returns an entry id while one of its lines names an account that does not
\* exist.
C6_UnknownAccountRejected ==
  [][\A p \in Callers :
       (Running(p, "post") /\ StepOf(p)
          /\ \E k \in 1..Len(call[p].lines) :
               ~db'.accounts[call[p].lines[k].account_code].exists) =>
         ~Ends(p, "ok")]_vars

\* C7: a post with no line is rejected and persists no journal entry header.
C7_EmptyPostRejected ==
  [][\A p \in Callers :
       (Running(p, "post") /\ call[p].lines = <<>> /\ StepOf(p)) =>
         /\ ~Ends(p, "ok")
         /\ db'.entries = db.entries]_vars

\* C8: committed entries, taken in the order they were committed, carry
\* strictly increasing ids, whatever posts failed in between; no id is used twice.
C8_EntryIdsIncrease ==
  \A i, j \in 1..Len(db.entries) : i < j => db.entries[i] < db.entries[j]

C8_Witness ==
  /\ Len(db.entries) = 2
  /\ \E p \in Callers :
       pc[p] = "done" /\ call[p].op = "post" /\ call[p].result \in {"unbalanced", "locked"}

\* C9: posts that run concurrently and touch the same account lose no update:
\* in every committed state each balance is the sum of the signed effects of
\* all committed lines on the account, whichever way the posts interleaved.
C9_NoLostUpdate ==
  \A code \in Codes :
    db.accounts[code].balance = EffectOn(db.accounts[code].type, code, db.lines)

\* both posts have their header, the later one has run all its lines while
\* the earlier one is still running, and both wrote to account 1000
C9_Witness ==
  \E p, q \in Callers :
    /\ Running(p, "post") /\ Running(q, "post")
    /\ call[p].entry_id # 0 /\ call[q].entry_id > call[p].entry_id
    /\ pc[q] = "commit"
    /\ \E k \in 1..Len(call[p].lines) : call[p].lines[k].account_code = "1000"
    /\ \E k \in 1..Len(call[q].lines) : call[q].lines[k].account_code = "1000"
    /\ Len(LinesOf(db, call[p].entry_id)) > 0
    /\ Len(LinesOf(db, call[p].entry_id)) < Len(call[p].lines)
\* C10: concurrent clearings of one invoice lose no payment: the invoice's
\* settled amount is its initial amount (0) plus every cleared amount, and the
\* remaining amounts of its clearing records are those of the calls run one
\* after the other in some order.
ClearingsOf(d, n) == SelectSeq(d.clearings, LAMBDA r : r.invoice_number = n)

RECURSIVE Cleared(_, _, _)
Cleared(recs, order, k) ==
  IF k = 0 THEN 0 ELSE recs[order[k]].cleared_amount + Cleared(recs, order, k - 1)

Orders(m) == {f \in [1..m -> 1..m] : \A i, j \in 1..m : f[i] = f[j] => i = j}

C10_NoLostClearing ==
  \A n \in InvoiceNumbers :
    db.invoices[n].exists =>
      LET recs == ClearingsOf(db, n)
          m == Len(recs)
      IN  /\ db.invoices[n].paid_amount = Cleared(recs, [k \in 1..m |-> k], m)
          /\ \E order \in Orders(m) :
               \A k \in 1..m :
                 recs[order[k]].remaining_amount =
                   db.invoices[n].total_amount - Cleared(recs, order, k)
\* C11: a clearing changes no settled amount and appends no clearing record
\* when its invoice does not exist or is already fully settled (settled amount
\* at or above the total): whenever a clearing changes the committed data, its
\* invoice existed and was not yet settled.
Settled(inv) == inv.exists /\ inv.paid_amount >= inv.total_amount

C11_SettledOrMissingNotCleared ==
  [][\A p \in Callers :
       (Running(p, "clear") /\ db' # db) =>
         /\ db.invoices[call[p].code].exists
         /\ ~Settled(db.invoices[call[p].code])]_vars

\* C12: a successful clearing of `amount` raises the invoice's settled amount
\* by exactly `amount`, above the total too, touches no other invoice, and
\* appends exactly one clearing record: original_amount the invoice's total,
\* cleared_amount `amount`, remaining_amount the total minus the new settled
\* amount (negative when the invoice is over-paid).
C12_ClearingAddsAmount ==
  [][\A p \in Callers :
       (Running(p, "clear") /\ db' # db) =>
         LET n == call[p].code
             inv == db.invoices[n]
         IN  /\ db'.invoices =
                  [db.invoices EXCEPT ![n].paid_amount = inv.paid_amount + call[p].amount]
             /\ db'.clearings =
                  Append(db.clearings,
                    [payment_type |-> "receivable",
                     payment_reference |-> call[p].clearing_reference,
                     invoice_number |-> n, po_number |-> "none",
                     original_amount |-> inv.total_amount,
                     cleared_amount |-> call[p].amount,
                     remaining_amount |-> inv.total_amount - db'.invoices[n].paid_amount,
                     clearing_method |-> call[p].clearing_method])]_vars

\* an invoice paid beyond its total, its last clearing recorded with a
\* negative remaining amount
C12_Witness ==
  \E n \in InvoiceNumbers :
    /\ db.invoices[n].paid_amount > db.invoices[n].total_amount
    /\ Len(db.clearings) = 2
    /\ db.clearings[2].invoice_number = n
    /\ db.clearings[2].remaining_amount < 0
    /\ db.clearings[2].remaining_amount =
         db.invoices[n].total_amount - db.invoices[n].paid_amount

\* C13: the details a successful single-invoice clearing returns give the
\* invoice's total as the original amount, the settled amount before and after
\* the payment, and the total minus the new settled amount as the remaining
\* balance.
C13_ResultReportsTotals ==
  [][\A p \in Callers :
       (Running(p, "clear") /\ call[p].via = "manager" /\ Ends(p, "ok")) =>
         LET inv == db.invoices[call[p].code]
             ret == call'[p].ret
         IN  /\ ret.original_amount = inv.total_amount
             /\ ret.new_paid_amount = inv.paid_amount
             /\ ret.previous_paid = inv.paid_amount - call[p].amount
             /\ ret.remaining_balance = inv.total_amount - inv.paid_amount]_vars
\* C14: for each listed invoice a multi-invoice clearing works with an
\* outstanding amount equal to the invoice's total amount minus its settled
\* amount at the time it is loaded.
C14_OutstandingIsTotalLessPaid ==
  [][\A p \in Callers :
       (Running(p, "clear_many") /\ Len(call'[p].invoices) > Len(call[p].invoices)) =>
         LET loaded == call'[p].invoices[Len(call'[p].invoices)]
             inv == db.invoices[loaded.invoice_number]
         IN  loaded.outstanding = inv.total_amount - inv.paid_amount]_vars

\* C15: whatever the strategy, the payment and the list of invoices (one
\* invoice may be named twice), the allocations of a multi-invoice clearing sum
\* to min(payment, sum of the outstanding amounts of the distinct invoices), and
\* no invoice is allocated more than its own outstanding amount.
Numbers(rows) == {rows[k].invoice_number : k \in 1..Len(rows)}

OutstandingOf(invoices, n) ==
  invoices[CHOOSE k \in 1..Len(invoices) : invoices[k].invoice_number = n].outstanding

RECURSIVE AllocatedTo(_, _)
AllocatedTo(allocations, N) ==
  IF allocations = <<>> THEN 0
  ELSE (IF Head(allocations).invoice_number \in N THEN Head(allocations).amount ELSE 0)
         + AllocatedTo(Tail(allocations), N)

RECURSIVE OutstandingSum(_, _)
OutstandingSum(invoices, N) ==
  IF N = {} THEN 0
  ELSE LET n == CHOOSE x \in N : TRUE
       IN  OutstandingOf(invoices, n) + OutstandingSum(invoices, N \ {n})

Allocates(p) == pc[p] = "many_allocate" /\ pc'[p] = "many_next"

C15_AllocationsSumToPayment ==
  [][\A p \in Callers :
       Allocates(p) =>
         LET invoices == call[p].invoices
             allocations == call'[p].allocations
             N == Numbers(invoices)
         IN  /\ AllocatedTo(allocations, N) =
                  Min(call[p].total_payment_amount, OutstandingSum(invoices, N))
             /\ \A n \in N :
                  AllocatedTo(allocations, {n}) <= OutstandingOf(invoices, n)]_vars
\* C16 as stated: under the proportional strategy each invoice receives
\* payment * (its outstanding / sum of outstanding), capped at its own
\* outstanding amount; when the sum of outstanding is zero every allocation is 0.
\* t / s <= 1 and t / s >= 1, for s # 0
UnderOne(t, s) == IF s > 0 THEN t <= s ELSE t >= s

OverOne(t, s) == IF s > 0 THEN t >= s ELSE t <= s

\* n / d in lowest terms with a positive denominator, for d # 0
Fraction(n, d) ==
  LET g == GCD(n, d)
  IN  IF d < 0 THEN <<(0 - n) \div g, (0 - d) \div g>> ELSE <<n \div g, d \div g>>

\* x = t * (o / s), for s # 0
IsShare(x, t, o, s) ==
  IF o = 0 \/ t = 0 THEN x = 0 ELSE x # 0 /\ Fraction(x, o) = Fraction(t, s)

\* x = min(t * (o / s), o), for s # 0
IsCappedShare(x, t, o, s) ==
  \/ /\ IsShare(x, t, o, s)
     /\ (o > 0 => UnderOne(t, s))
     /\ (o < 0 => OverOne(t, s))
  \/ /\ x = o
     /\ (o > 0 => OverOne(t, s))
     /\ (o < 0 => UnderOne(t, s))

AllocatesBy(p, methods) == Allocates(p) /\ call[p].allocation_method \in methods

Proportional(p, zero_sum) ==
  LET invoices == call[p].invoices
      allocations == call'[p].allocations
      s == OutstandingSum(invoices, Numbers(invoices))
  IN  /\ Len(allocations) = Len(invoices)
      /\ \A k \in 1..Len(invoices) :
           /\ allocations[k].invoice_number = invoices[k].invoice_number
           /\ IF zero_sum
              THEN allocations[k].amount = 0
              ELSE IsCappedShare(allocations[k].amount, call[p].total_payment_amount,
                                 invoices[k].outstanding, s)

RECURSIVE AllocatedBefore(_, _)
AllocatedBefore(allocations, k) ==
  IF k <= 1 THEN 0
  ELSE allocations[k - 1].amount + AllocatedBefore(allocations, k - 1)

InOrder(invoices, f, method) ==
  \A i, j \in 1..Len(invoices) :
    i < j =>
      IF method = "oldest_first"
      THEN invoices[f[i]].issue_date <= invoices[f[j]].issue_date
      ELSE invoices[f[i]].outstanding >= invoices[f[j]].outstanding

Greedy(allocations, invoices, f, total_amount) ==
  \A k \in 1..Len(invoices) :
    LET unallocated == total_amount - AllocatedBefore(allocations, k)
    IN  /\ allocations[k].invoice_number = invoices[f[k]].invoice_number
        /\ allocations[k].amount =
             IF unallocated <= 0 THEN 0
             ELSE Min(unallocated, invoices[f[k]].outstanding)
        /\ allocations[k].amount # 0 =>
             \A j \in 1..(k - 1) : allocations[j].amount = invoices[f[j]].outstanding

C17_InOrderUntilExhausted ==
  [][\A p \in Callers :
       AllocatesBy(p, {"oldest_first", "largest_first"}) =>
         LET invoices == call[p].invoices
             allocations == call'[p].allocations
         IN  /\ Len(allocations) = Len(invoices)
             /\ \E f \in Orders(Len(invoices)) :
                  /\ InOrder(invoices, f, call[p].allocation_method)
                  /\ Greedy(allocations, invoices, f, call[p].total_payment_amount)]_vars

C17_Witness ==
  \E p \in Callers :
    /\ pc[p] = "many_next"
    /\ call[p].allocation_method = "oldest_first"
    /\ call[p].total_payment_amount = 3000000
    /\ call[p].invoices[1].invoice_number = "INV3"
    /\ call[p].allocations = << [invoice_number |-> "INV2", amount |-> 1000000],
                                [invoice_number |-> "INV1", amount |-> 2000000],
                                [invoice_number |-> "INV3", amount |-> 0] >>
\* C18: a multi-invoice clearing whose listed ids yield no eligible invoice
\* (the list is empty, or every id is unknown or names an invoice already
\* settled in full) fails with the no-eligible-invoices error and changes
\* nothing.
NoneEligible(d, invoice_numbers) ==
  \A k \in 1..Len(invoice_numbers) :
    \/ ~d.invoices[invoice_numbers[k]].exists
    \/ Settled(d.invoices[invoice_numbers[k]])

C18_NoEligibleInvoiceFails ==
  [][\A p \in Callers :
       ( /\ Running(p, "clear_many")
         /\ call[p].results = <<>>
         /\ NoneEligible(db, call[p].invoice_numbers) ) =>
           /\ db' = db
           /\ pc'[p] = "done" => call'[p].result = "no_invoices"]_vars

\* C19: a multi-invoice clearing that fails has changed nothing: no invoice's
\* settled amount and no clearing record of the call remains.
C19_FailedClearingAppliesNothing ==
  [][\A p \in Callers :
       ( /\ Running(p, "clear_many")
         /\ pc'[p] = "done"
         /\ call'[p].result # "ok" ) =>
           call[p].results = <<>>]_vars
\* C20: for every outstanding invoice an aging run computes days_overdue as
\* max(0, days from the invoice's due date to the report date): 0 for an invoice
\* due on or after the report date, 45 for one due 45 days before it.
C20_DaysOverdueFromDueDate ==
  [][\A p \in Callers :
       (Running(p, "aging") /\ Len(db'.aging) > Len(db.aging)) =>
         LET entry == db'.aging[Len(db'.aging)]
         IN  entry.days_overdue =
               Max(0, entry.schedule_date - db.invoices[entry.invoice_number].due_date)]_vars
\* C21: the aging period is a total function of days_overdue: 0 -> current,
\* 1..30 -> 30_days, 31..60 -> 60_days, 61..90 -> 90_days, above 90 ->
\* over_90_days; every stored aging entry's period agrees with its days_overdue.
BucketOf(days) ==
  CASE days = 0        -> "current"
    [] days \in 1..30  -> "30_days"
    [] days \in 31..60 -> "60_days"
    [] days \in 61..90 -> "90_days"
    [] days > 90       -> "over_90_days"
    [] OTHER           -> "none"

C21_BucketBoundaries ==
  \A k \in 1..Len(db.aging) :
    db.aging[k].aging_period = BucketOf(db.aging[k].days_overdue)

C21_Witness ==
  /\ Len(db.aging) = 2
  /\ db.aging[1].days_overdue = 91 /\ db.aging[1].aging_period = "over_90_days"
  /\ db.aging[2].days_overdue = 90 /\ db.aging[2].aging_period = "90_days"

\* C22: the report an aging run returns counts each invoice that is
\* outstanding now exactly once, however many runs went before: its total
\* count is the number of invoices with settled amount below total, its total
\* amount the sum of their outstanding balances, and the per-period counts and
\* amounts add up to those totals.
OutstandingInvoices(d) ==
  {n \in InvoiceNumbers :
     d.invoices[n].exists /\ d.invoices[n].paid_amount < d.invoices[n].total_amount}

RECURSIVE BalanceOf(_, _)
BalanceOf(d, N) ==
  IF N = {} THEN 0
  ELSE LET n == CHOOSE x \in N : TRUE
       IN  d.invoices[n].total_amount - d.invoices[n].paid_amount
             + BalanceOf(d, N \ {n})

C22_ReportCountsEachOnce ==
  [][\A p \in Callers :
       (Running(p, "aging") /\ Ends(p, "ok")) =>
         LET report == call'[p].report
         IN  /\ report.total_count = Cardinality(OutstandingInvoices(db))
             /\ report.total_amount = BalanceOf(db, OutstandingInvoices(db))
             /\ SumOver(report.aging_summary, AgingPeriods, "count") = report.total_count
             /\ SumOver(report.aging_summary, AgingPeriods, "amount") = report.total_amount]_vars
\* C28: in a multi-invoice clearing every allocation that is not zero starts
\* one single-invoice clearing, which adds the allocation to that invoice's
\* settled amount and appends one record with the allocation as its amount,
\* method 'multiple' and the parent reference suffixed with the invoice number;
\* an allocation of zero starts no clearing, and nothing else of the call
\* changes the stored data.
C28_EachAllocationClearedOnce ==
  [][\A p \in Callers :
       Running(p, "clear_many") =>
         LET c == call[p]
         IN  /\ (pc[p] = "many_next" /\ StepOf(p) /\ c.i <= Len(c.allocations)) =>
                  (c.allocations[c.i].amount # 0 <=> pc'[p] = "clr_list")
             /\ (StepOf(p) /\ db' # db) =>
                  LET allocation == c.allocations[c.i]
                      n == allocation.invoice_number
                  IN  /\ db'.invoices =
                           [db.invoices EXCEPT ![n].paid_amount = @ + allocation.amount]
                      /\ Len(db'.clearings) = Len(db.clearings) + 1
                      /\ SubSeq(db'.clearings, 1, Len(db.clearings)) = db.clearings
                      /\ LET record == db'.clearings[Len(db'.clearings)]
                         IN  /\ record.invoice_number = n
                             /\ record.cleared_amount = allocation.amount
                             /\ record.clearing_method = "multiple"
                             /\ record.payment_reference = <<"PAY", "-", n>>]_vars
\* C27: a post that ends with the storage layer's concurrent-write conflict
\* leaves the store unchanged: no journal entry of that post is committed.
C27_ConflictLeavesStoreUnchanged ==
  [][\A p \in Callers :
       (Running(p, "post") /\ Ends(p, "locked")) =>
         \/ call[p].entry_id = 0
         \/ ~InSeq(db'.entries, call[p].entry_id)]_vars
TotalOf(accounts, type) == SumValues(Balances(accounts, OfType(accounts, type)))

\* assets plus expenses, less liabilities, equity and revenue
Imbalance(accounts) ==
  TotalOf(accounts, "ASSET") + TotalOf(accounts, "EXPENSE")
  - (TotalOf(accounts, "LIABILITY") + TotalOf(accounts, "EQUITY")
     + TotalOf(accounts, "REVENUE"))

\* C24: starting from zero balances, whenever no post is in progress the
\* asset and expense balances sum to the liability, equity and revenue
\* balances, within 0.01.
C24_EquationHolds ==
  (\A p \in Callers : Free(p)) => Abs(Imbalance(db.accounts)) <= DbTolerance

\* the accounts the caller of the cash report classifies as cash-equivalent
CashEquivalent == {"1000"}

\* C26: the cash-position report sums exactly the accounts its caller
\* classifies as cash-equivalent, whatever their names are.
C26_CashByClassification ==
  \A p \in Callers :
    (call[p].op = "report" /\ call[p].kind = "cash_flow") =>
      /\ DOMAIN call[p].statement.cash_accounts =
           {c \in CashEquivalent : call[p].read[c].exists}
      /\ call[p].statement.total_cash =
           SumValues(Balances(call[p].read, CashEquivalent))
\* the sum of the signed effects of the committed journal lines on the
\* accounts of one type
PostedTo(d, type) ==
  LET RECURSIVE sum(_)
      sum(S) == IF S = {} THEN 0
                ELSE LET c == CHOOSE x \in S : TRUE
                     IN  EffectOn(type, c, d.lines) + sum(S \ {c})
  IN  sum(OfType(d.accounts, type))

\* this step ends the post of a closing entry
Closes(p) == Running(p, "post") /\ call[p].kind = "closing" /\ Ends(p, "ok")

\* C29: revenue and expense balances are never reset on their own: the net
\* income of the income statement is the revenue less the expenses over every
\* line ever posted. When a closing entry has been posted the net income is 0,
\* Retained Earnings has grown by the net income of before, and the accounting
\* equation is as far from holding as it was.
C29_ClosingMovesNetIncome ==
  [][/\ income_statement(db'.accounts).net_income =
          PostedTo(db', "REVENUE") - PostedTo(db', "EXPENSE")
     /\ \A p \in Callers :
          Closes(p) =>
            /\ income_statement(db'.accounts).net_income = 0
            /\ db'.accounts["3100"].balance =
                 call[p].read["3100"].balance + call[p].statement.net_income
            /\ Imbalance(db'.accounts) = Imbalance(call[p].read)]_vars

\* a sale of 3.00 and an expense of 1.00 have been closed to Retained Earnings
C29_Witness ==
  /\ pc["c1"] = "done"
  /\ Len(db.entries) = 3
  /\ db.accounts["3100"].balance = 2000000
  /\ db.accounts["4000"].balance = 0
  /\ db.accounts["5000"].balance = 0
  /\ db.accounts["1000"].balance = 2000000
\* s is the beginning of t
IsPrefix(s, t) == Len(s) <= Len(t) /\ SubSeq(t, 1, Len(s)) = s

\* C25: committed records are immutable: every journal entry, journal line
\* and clearing record that has been committed is still there, unchanged and
\* in its place, after every step.
C25_CommittedRecordsKept ==
  [][/\ IsPrefix(db.entries, db'.entries)
     /\ IsPrefix(db.lines, db'.lines)
     /\ IsPrefix(db.clearings, db'.clearings)]_vars

\* a journal entry with its two lines and, after it, a clearing record have
\* been committed
C25_Witness ==
  /\ Len(db.entries) = 1
  /\ Len(db.lines) = 2
  /\ Len(db.clearings) = 1
  /\ db.invoices["INV1"].paid_amount = db.clearings[1].cleared_amount
  /\ pc["c1"] = "done"
\* C30: after any sequence of line receipts and purchase order payment
\* clearings, the received total of every purchase order's header is the sum
\* of the received totals of its lines.
C30_HeaderIsSumOfLines ==
  (\A p \in Callers : Free(p)) =>
    \A po \in PONumbers :
      db.purchase_orders[po].exists =>
        db.purchase_orders[po].received_total = SumOfLines(db, po, "received_total")
\* C31: whenever no operation is in progress, the paid amount of every
\* invoice is the sum of the cleared amounts of its clearing records, and the
\* remaining amount of its last record is its total less its paid amount.
C31_PaidIsSumOfClearings ==
  (\A p \in Callers : Free(p)) =>
    \A n \in InvoiceNumbers :
      db.invoices[n].exists =>
        LET recs == ClearingsOf(db, n)
        IN  /\ db.invoices[n].paid_amount =
                 SumSeq([k \in 1..Len(recs) |-> recs[k].cleared_amount])
            /\ recs # <<>> =>
                 recs[Len(recs)].remaining_amount =
                   db.invoices[n].total_amount - db.invoices[n].paid_amount
\* the invoice exists and its paid amount is less than its total
Eligible(d, n) ==
  d.invoices[n].exists /\ d.invoices[n].paid_amount < d.invoices[n].total_amount

\* C32: an existing invoice whose paid amount is less than its total is
\* accepted for clearing whatever its status is: a single clearing of it does
\* not end with the not-found error, and a clearing across a list that names
\* it does not end with the no-eligible-invoices error.
C32_EligibleInvoiceAccepted ==
  [][\A p \in Callers :
       /\ (Running(p, "clear") /\ Eligible(db, call[p].code)) =>
            ~Ends(p, "not_found")
       /\ ( /\ Running(p, "clear_many")
            /\ \E k \in 1..Len(call[p].invoice_numbers) :
                 Eligible(db, call[p].invoice_numbers[k]) ) =>
            ~Ends(p, "no_invoices")]_vars
\* C33: saving the chart and the ledger and loading them back is a round
\* trip: the loaded chart has the accounts and the balances of the saved one
\* and the loaded ledger has its entries.
C33_SaveLoadRoundTrip ==
  [][SaveLoad => chart' = chart /\ ledger' = ledger]_vars
\* C34: the in-memory posting path and the database posting path agree:
\* whenever no post is in progress, both have accepted the same number of
\* the entries given to both, and every account has the same balance in the
\* database and in the in-memory chart.
C34_PathsAgree ==
  (\A p \in Callers : Free(p)) =>
    /\ Len(db.entries) = Len(ledger)
    /\ \A code \in Codes : db.accounts[code] = chart[code]
\* C35: after any sequence of receipts, the received quantity of every
\* purchase order line is at least 0 and at most the quantity ordered.
C35_ReceivedWithinOrdered ==
  \A k \in 1..Len(db.purchase_order_lines) :
    /\ 0 <= db.purchase_order_lines[k].received_quantity
    /\ db.purchase_order_lines[k].received_quantity <= db.purchase_order_lines[k].quantity

====
